---------------------------- MODULE Spec2Model ----------------------------
(***************************************************************************)
(* Procedural graph generation of experiment-proton-hero-brain:            *)
(*   - the neuron graph  (shared/neuron-graph.tsx, NeuronGraph),           *)
(*   - the cube graph    (cube-graph.tsx, CubeGraph),                      *)
(*   - the brain graph   (brain-graph/utils.ts, generateBrainGraph).       *)
(*                                                                         *)
(* JavaScript numbers are modelled as fixed-point integers: the number v  *)
(* is the integer round(v * One).  Every arithmetic step rounds to that    *)
(* grid, as every floating-point step rounds to its own.  Math.sin,        *)
(* Math.cos, Math.acos and Math.sqrt are computed on this grid.            *)
(* Math.random() is the engine's generator: a hidden state that each call  *)
(* advances; the state a generation run starts from is an input.           *)
(***************************************************************************)
EXTENDS Integers, Sequences, FiniteSets, TLC

(***************************************************************************)
(* Fixed-point numbers                                                     *)
(***************************************************************************)
\* the fixed-point image of the number 1
One == 10 * 100

Abs(a) == IF a < 0 THEN -a ELSE a

\* a / b rounded to the nearest integer (b > 0)
RoundDiv(a, b) ==
    IF a >= 0 THEN (2 * a + b) \div (2 * b) ELSE -((2 * (-a) + b) \div (2 * b))

\* the product and the quotient of two fixed-point numbers
Mul(a, b) == RoundDiv(a * b, One)
Div(a, b) == IF b > 0 THEN RoundDiv(a * One, b) ELSE -RoundDiv(a * One, -b)

RECURSIVE SqrtIter(_, _)
SqrtIter(n, x) ==
    IF (x + n \div x) \div 2 >= x THEN x ELSE SqrtIter(n, (x + n \div x) \div 2)

\* floor of the square root of the integer n >= 0
ISqrt(n) == IF n <= 0 THEN 0 ELSE SqrtIter(n, n)

\* Math.PI, Math.PI * 2 and Math.PI / 2 on the grid
Pi == 3142
TwoPi == 6283
HalfPi == Pi \div 2

\* sin x = x (1 - x^2/6 (1 - x^2/20 (1 - x^2/42))) for x in [0, HalfPi]
SinHorner(x, x2) ==
    Mul(x, One - Mul(RoundDiv(x2, 6),
                     One - Mul(RoundDiv(x2, 20), One - RoundDiv(x2, 42))))

\* cos x = 1 - x^2/2 (1 - x^2/12 (1 - x^2/30 (1 - x^2/56))) for x in [0, HalfPi]
CosHorner(x2) ==
    One - Mul(RoundDiv(x2, 2),
              One - Mul(RoundDiv(x2, 12),
                        One - Mul(RoundDiv(x2, 30), One - RoundDiv(x2, 56))))

Clamp(v) == IF v > One THEN One ELSE IF v < -One THEN -One ELSE v

\* the angle r in [0, TwoPi) folded into [0, HalfPi], and the signs of its
\* sine and cosine
FoldAngle(r) ==
    IF r <= HalfPi THEN r
    ELSE IF r <= Pi THEN Pi - r
    ELSE IF r <= Pi + HalfPi THEN r - Pi
    ELSE TwoPi - r
SinSign(r) == IF r <= Pi THEN 1 ELSE -1
CosSign(r) == IF r <= HalfPi \/ r > Pi + HalfPi THEN 1 ELSE -1

\* Math.sin and Math.cos of an angle in radians (any sign, any size)
SinReduced(r) ==
    SinSign(r) * Clamp(SinHorner(FoldAngle(r), Mul(FoldAngle(r), FoldAngle(r))))
CosReduced(r) == CosSign(r) * Clamp(CosHorner(Mul(FoldAngle(r), FoldAngle(r))))
Sin(a) == SinReduced(a % TwoPi)
Cos(a) == CosReduced(a % TwoPi)

\* the angle of lo and hi whose cosine (cosLo, cosHi) is nearer to c
NearerAngle(c, lo, hi, cosLo, cosHi) ==
    IF Abs(cosLo - c) <= Abs(cosHi - c) THEN lo ELSE hi

RECURSIVE AcosSearch(_, _, _)
AcosSearch(c, lo, hi) ==
    IF hi - lo <= 1 THEN NearerAngle(c, lo, hi, Cos(lo), Cos(hi))
    ELSE IF Cos((lo + hi) \div 2) > c THEN AcosSearch(c, (lo + hi) \div 2, hi)
    ELSE AcosSearch(c, lo, (lo + hi) \div 2)

\* Math.acos: the angle in [0, Pi] whose cosine is c (cos decreases on [0, Pi])
Acos(c) ==
    IF c >= One THEN 0
    ELSE IF c <= -One THEN Pi
    ELSE AcosSearch(c, 0, Pi)

(***************************************************************************)
(* THREE.Vector3                                                           *)
(***************************************************************************)
Vec(x, y, z) == <<x, y, z>>
Zero3 == Vec(0, 0, 0)

VAdd(a, b) == Vec(a[1] + b[1], a[2] + b[2], a[3] + b[3])
VSub(a, b) == Vec(a[1] - b[1], a[2] - b[2], a[3] - b[3])
\* multiplyScalar
VScale(a, s) == Vec(Mul(a[1], s), Mul(a[2], s), Mul(a[3], s))
\* dot, on the grid
VDot(a, b) == RoundDiv(a[1] * b[1] + a[2] * b[2] + a[3] * b[3], One)
\* cross
VCross(a, b) ==
    Vec(RoundDiv(a[2] * b[3] - a[3] * b[2], One),
        RoundDiv(a[3] * b[1] - a[1] * b[3], One),
        RoundDiv(a[1] * b[2] - a[2] * b[1], One))
\* lengthSq in squared grid units, and length
VLengthSq(a) == a[1] * a[1] + a[2] * a[2] + a[3] * a[3]
VLength(a) == ISqrt(VLengthSq(a))
\* distanceTo
VDistance(a, b) == VLength(VSub(a, b))
\* normalize: divideScalar(length() || 1)
VDivideScalar(a, l) ==
    IF l = 0 THEN a
    ELSE Vec(RoundDiv(a[1] * One, l), RoundDiv(a[2] * One, l), RoundDiv(a[3] * One, l))
VNormalize(a) == VDivideScalar(a, VLength(a))


\* the cap of the retry loop of the uniform placement
MaxAttempts == 100

(***************************************************************************)
(* seededRandom: the sine hash of the neuron graph and the cube graph      *)
(***************************************************************************)
\* the argument with the seed weighted as the offset is
HashArgEqualWeights(seed, offset) == seed * 437580 + offset * 437580

\* the argument of Math.sin, seed * 12.9898 + offset * 43.758, times 10^4
HashArg(seed, offset) == seed * 129898 + offset * 437580

\* x = Math.sin(seed * 12.9898 + offset * 43.758) * 43758.5453;
\* return x - Math.floor(x)
\* sine * 43758.5453, less its floor
HashFraction(sine) == (sine * 43758 + RoundDiv(sine * 5453, 10000)) % One

seededRandom(seed, offset) ==
    HashFraction(Sin(RoundDiv((HashArg(seed, offset) * 10) % 628319, 100)))

(***************************************************************************)
(* NeuronGraph: node placement                                             *)
(***************************************************************************)
\* the offsets passed to seededRandom for node i: position, rotation, scale
PositionOffsets(i) == {i * 10, i * 10 + 1, i * 10 + 2}
RotationOffsets(i) == {i * 20, i * 20 + 1, i * 20 + 2}
ScaleOffset(i) == i * 30

\* rotX, rotY, rotZ of node i
NodeRotation(seed, i) ==
    Vec(Mul(seededRandom(seed, i * 20), TwoPi),
        Mul(seededRandom(seed, i * 20 + 1), TwoPi),
        Mul(seededRandom(seed, i * 20 + 2), TwoPi))

\* scale * (0.8 + seededRandom(i * 30) * 0.4)
NodeScale(seed, scale, i) == Mul(scale, 800 + Mul(seededRandom(seed, i * 30), 400))

\* x = radius * sin(phi) * cos(theta), y = radius * sin(phi) * sin(theta),
\* z = radius * cos(phi)
Spherical(radius, sinPhi, cosPhi, theta) ==
    Vec(Mul(Mul(radius, sinPhi), Cos(theta)),
        Mul(Mul(radius, sinPhi), Sin(theta)),
        Mul(radius, cosPhi))
SphericalPoint(radius, phi, theta) == Spherical(radius, Sin(phi), Cos(phi), theta)

\* the centre with radius = spread * (seededRandom(i * 10 + 2) * 0.7)
ClusteredPositionNoFloor(seed, spread, i) ==
    SphericalPoint(Mul(spread, Mul(seededRandom(seed, i * 10 + 2), 700)),
                   Acos(2 * seededRandom(seed, i * 10 + 1) - One),
                   Mul(seededRandom(seed, i * 10), TwoPi))

\* the centre of node i in the clustered distribution
ClusteredPosition(seed, spread, i) ==
    SphericalPoint(Mul(spread, 300 + Mul(seededRandom(seed, i * 10 + 2), 700)),
                   Acos(2 * seededRandom(seed, i * 10 + 1) - One),
                   Mul(seededRandom(seed, i * 10), TwoPi))

RECURSIVE ClusteredLoop(_, _, _, _, _, _)
ClusteredLoop(seed, neuronCount, spread, scale, i, positions) ==
    IF i >= neuronCount THEN positions
    ELSE ClusteredLoop(seed, neuronCount, spread, scale, i + 1,
            Append(positions,
                   [position |-> ClusteredPosition(seed, spread, i),
                    rotation |-> NodeRotation(seed, i),
                    scale |-> NodeScale(seed, scale, i)]))

\* Math.ceil(Math.cbrt(neuronCount))
RECURSIVE CeilCbrtFrom(_, _)
CeilCbrtFrom(n, g) == IF g * g * g >= n THEN g ELSE CeilCbrtFrom(n, g + 1)
CeilCbrt(n) == CeilCbrtFrom(n, 0)

\* grid * separation + (seededRandom(offset) - 0.5) * separation * randomOffset
Jittered(grid, separation, random, randomOffset) ==
    Mul(grid, separation) + Mul(Mul(random - 500, separation), randomOffset)

\* the cell of a grid of one layer: the z coordinate left at 0
GridCellFlat(i, gridSize) == Vec(i % gridSize, (i \div gridSize) % gridSize, 0)

\* the grid cell of node i: i % gridSize, floor((i / gridSize) % gridSize),
\* floor(i / (gridSize * gridSize))
GridCell(i, gridSize) ==
    Vec(i % gridSize, (i \div gridSize) % gridSize, i \div (gridSize * gridSize))

\* the candidate at the cell: each cell coordinate less (gridSize - 1) * 0.5,
\* times separation, plus the jitter
CandidateAt(seed, separation, gridSize, i, cell) ==
    Vec(Jittered(cell[1] * One - (gridSize - 1) * 500, separation,
                 seededRandom(seed, i * 10), 300),
        Jittered(cell[2] * One - (gridSize - 1) * 500, separation,
                 seededRandom(seed, i * 10 + 1), 300),
        Jittered(cell[3] * One - (gridSize - 1) * 500, separation,
                 seededRandom(seed, i * 10 + 2), 300))

\* the candidate position of node i: its grid cell plus the jitter
CandidatePosition(seed, separation, gridSize, i) ==
    CandidateAt(seed, separation, gridSize, i, GridCell(i, gridSize))

\* the grid cells the uniform loop gives to the nodes 0 .. neuronCount - 1
GridCells(neuronCount) ==
    [k \in 1..neuronCount |-> GridCell(k - 1, CeilCbrt(neuronCount))]

\* the scan with only the last used position compared
ValidPositionLastOnly(candidatePosition, usedPositions, separation) ==
    \/ usedPositions = << >>
    \/ ~(VDistance(candidatePosition, usedPositions[Len(usedPositions)])
            < Mul(separation, 800))

\* the scan of usedPositions: no used position closer than separation * 0.8
ValidPosition(candidatePosition, usedPositions, separation) ==
    \A k \in 1..Len(usedPositions) :
        ~(VDistance(candidatePosition, usedPositions[k]) < Mul(separation, 800))

\* the verdict of a pass whose candidate moves on with the attempts made
AttemptValidByAttempt(seed, separation, gridSize, i, usedPositions, k) ==
    ValidPosition(CandidatePosition(seed, separation, gridSize,
                                    IF k = 1 THEN i ELSE i + 1),
                  usedPositions, separation)

\* the verdict of the pass of the while loop that makes attempts = k: the
\* candidate is computed anew in every pass, from offsets that do not hold k
AttemptValid(seed, separation, gridSize, i, usedPositions, k) ==
    ValidPosition(CandidatePosition(seed, separation, gridSize, i), usedPositions,
                  separation)

\* attempts when the loop while (!validPosition && attempts < 100) ends: the
\* first pass with a valid candidate, or the last pass allowed
AttemptsMade(seed, separation, gridSize, i, usedPositions) ==
    IF \E k \in 1..MaxAttempts :
          AttemptValid(seed, separation, gridSize, i, usedPositions, k)
    THEN CHOOSE k \in 1..MaxAttempts :
            /\ AttemptValid(seed, separation, gridSize, i, usedPositions, k)
            /\ \A m \in 1..(k - 1) :
                  ~AttemptValid(seed, separation, gridSize, i, usedPositions, m)
    ELSE MaxAttempts

\* validPosition, candidatePosition and attempts as the while loop leaves them
AttemptResult(candidatePosition, usedPositions, separation, attempts) ==
    [valid |-> ValidPosition(candidatePosition, usedPositions, separation),
     position |-> candidatePosition, attempts |-> attempts]

AttemptLoop(seed, separation, gridSize, i, usedPositions) ==
    AttemptResult(CandidatePosition(seed, separation, gridSize, i), usedPositions,
                  separation,
                  AttemptsMade(seed, separation, gridSize, i, usedPositions))

\* the body of the for loop of node i once its while loop has ended
RECURSIVE UniformLoop(_, _, _, _, _, _, _, _)
\* the body with break in the place of the skipped push: the loop ends at
\* the first node that is refused
UniformPlaceStop(seed, neuronCount, separation, scale, gridSize, i, usedPositions, positions, found) ==
    IF found.valid
    THEN UniformLoop(seed, neuronCount, separation, scale, gridSize, i + 1,
             Append(usedPositions, found.position),
             Append(positions,
                    [position |-> found.position,
                     rotation |-> NodeRotation(seed, i),
                     scale |-> NodeScale(seed, scale, i)]))
    ELSE positions

UniformPlace(seed, neuronCount, separation, scale, gridSize, i, usedPositions, positions, found) ==
    IF found.valid
    THEN UniformLoop(seed, neuronCount, separation, scale, gridSize, i + 1,
             Append(usedPositions, found.position),
             Append(positions,
                    [position |-> found.position,
                     rotation |-> NodeRotation(seed, i),
                     scale |-> NodeScale(seed, scale, i)]))
    ELSE UniformLoop(seed, neuronCount, separation, scale, gridSize, i + 1,
             usedPositions, positions)

UniformLoop(seed, neuronCount, separation, scale, gridSize, i, usedPositions, positions) ==
    IF i >= neuronCount THEN positions
    ELSE UniformPlace(seed, neuronCount, separation, scale, gridSize, i, usedPositions,
                      positions,
                      AttemptLoop(seed, separation, gridSize, i, usedPositions))

\* the neuronPositions memo
NeuronPositions(seed, c) ==
    IF c.distribution = "clustered"
    THEN ClusteredLoop(seed, c.neuronCount, c.spread, c.scale, 0, << >>)
    ELSE UniformLoop(seed, c.neuronCount, c.separation, c.scale,
                     CeilCbrt(c.neuronCount), 0, << >>, << >>)

(***************************************************************************)
(* NeuronGraph: all-pairs connections                                      *)
(***************************************************************************)
\* the loops over i and j = i + 1 ..; a connection keeps the two Vector3
\* objects positions[i] and positions[j], named here by their indices
RECURSIVE NeuronPairLoop(_, _, _, _, _)
NeuronPairLoop(positions, maxConnectionDistance, i, j, conns) ==
    IF i >= Len(positions) THEN conns
    ELSE IF j >= Len(positions)
         THEN NeuronPairLoop(positions, maxConnectionDistance, i + 1, i + 2, conns)
         ELSE LET distance == VDistance(positions[i + 1], positions[j + 1])
              IN  NeuronPairLoop(positions, maxConnectionDistance, i, j + 1,
                      IF distance <= maxConnectionDistance
                      THEN Append(conns, [start |-> positions[i + 1],
                                          end |-> positions[j + 1],
                                          startIndex |-> i, endIndex |-> j])
                      ELSE conns)

\* the connections memo with the inner loop started at j = i
NeuronConnectionsFromSelf(neuronPositions, showConnections, maxConnectionDistance) ==
    IF ~showConnections THEN << >>
    ELSE NeuronPairLoop([k \in 1..Len(neuronPositions) |-> neuronPositions[k].position],
                        maxConnectionDistance, 0, 0, << >>)

\* the connections memo
NeuronConnections(neuronPositions, showConnections, maxConnectionDistance) ==
    IF ~showConnections THEN << >>
    ELSE NeuronPairLoop([k \in 1..Len(neuronPositions) |-> neuronPositions[k].position],
                        maxConnectionDistance, 0, 1, << >>)

(***************************************************************************)
(* CubeGraph: cube placement                                               *)
(***************************************************************************)
\* generateCubeGraph(size): the 8 corners and the 12 edges (0-based)
\* the cube with a diagonal of the bottom face in the place of its edge [3,0]
generateCubeGraphDiagonal(size) ==
    [nodes |-> << Vec(-size, -size, -size), Vec(size, -size, -size),
                  Vec(size, size, -size), Vec(-size, size, -size),
                  Vec(-size, -size, size), Vec(size, -size, size),
                  Vec(size, size, size), Vec(-size, size, size) >>,
     edges |-> << <<0, 1>>, <<1, 2>>, <<2, 3>>, <<0, 2>>,
                  <<4, 5>>, <<5, 6>>, <<6, 7>>, <<7, 4>>,
                  <<0, 4>>, <<1, 5>>, <<2, 6>>, <<3, 7>> >>]

generateCubeGraph(size) ==
    [nodes |-> << Vec(-size, -size, -size), Vec(size, -size, -size),
                  Vec(size, size, -size), Vec(-size, size, -size),
                  Vec(-size, -size, size), Vec(size, -size, size),
                  Vec(size, size, size), Vec(-size, size, size) >>,
     edges |-> << <<0, 1>>, <<1, 2>>, <<2, 3>>, <<3, 0>>,
                  <<4, 5>>, <<5, 6>>, <<6, 7>>, <<7, 4>>,
                  <<0, 4>>, <<1, 5>>, <<2, 6>>, <<3, 7>> >>]

\* the rotations about the axes, given the cosine c and the sine s of the angle
RotateXBy(v, c, s) == Vec(v[1], Mul(v[2], c) - Mul(v[3], s), Mul(v[2], s) + Mul(v[3], c))
RotateYBy(v, c, s) == Vec(Mul(v[1], c) + Mul(v[3], s), v[2], Mul(v[3], c) - Mul(v[1], s))
RotateZBy(v, c, s) == Vec(Mul(v[1], c) - Mul(v[2], s), Mul(v[1], s) + Mul(v[2], c), v[3])

\* the rotation of an Euler (order XYZ) as the cosines and sines of its angles
EulerTrig(rotation) ==
    [cx |-> Cos(rotation[1]), sx |-> Sin(rotation[1]),
     cy |-> Cos(rotation[2]), sy |-> Sin(rotation[2]),
     cz |-> Cos(rotation[3]), sz |-> Sin(rotation[3])]

\* Vector3.applyEuler with the order XYZ: the matrix Rx * Ry * Rz
ApplyEuler(v, e) ==
    RotateXBy(RotateYBy(RotateZBy(v, e.cz, e.sz), e.cy, e.sy), e.cx, e.sx)

\* the cube of one loop pass: its 8 corners rotated, then moved to position
PlacedCube(position, rotation, scale, nodes, e) ==
    [position |-> position, rotation |-> rotation, scale |-> scale,
     nodePositions |-> [n \in 1..Len(nodes) |-> VAdd(ApplyEuler(nodes[n], e), position)]]

CubeAt(position, rotation, scale) ==
    PlacedCube(position, rotation, scale, generateCubeGraph(scale).nodes,
               EulerTrig(rotation))

RECURSIVE CubeLoop(_, _, _, _, _, _)
CubeLoop(seed, cubeCount, spread, cubeSize, i, cubes) ==
    IF i >= cubeCount THEN cubes
    ELSE CubeLoop(seed, cubeCount, spread, cubeSize, i + 1,
             Append(cubes, CubeAt(ClusteredPosition(seed, spread, i),
                                  NodeRotation(seed, i),
                                  NodeScale(seed, cubeSize, i))))

\* the cubeData memo
CubeData(seed, c) == CubeLoop(seed, c.cubeCount, c.spread, c.cubeSize, 0, << >>)

(***************************************************************************)
(* CubeGraph: closest-pair connections                                     *)
(***************************************************************************)
\* the value null, comparable with any record
Null == [null |-> TRUE]

\* the tests without the threshold
CloserAnyDistance(distance, maxConnectionDistance, closestPair) ==
    closestPair = Null \/ distance < closestPair.distance

\* the two tests on one pair of nodes: within the threshold, and closer than
\* the closest pair so far
Closer(distance, maxConnectionDistance, closestPair) ==
    /\ distance <= maxConnectionDistance
    /\ (closestPair = Null \/ distance < closestPair.distance)

\* closestPair kept at the first pair within the threshold
FirstStep(nodeI, nodeIdxI, nodeJ, nodeIdxJ, distance, maxConnectionDistance, closestPair) ==
    IF closestPair = Null /\ distance <= maxConnectionDistance
    THEN [start |-> nodeI, end |-> nodeJ,
          startNodeIndex |-> nodeIdxI, endNodeIndex |-> nodeIdxJ,
          distance |-> distance]
    ELSE closestPair

\* closestPair after the pass over (nodeI, nodeJ)
ClosestStep(nodeI, nodeIdxI, nodeJ, nodeIdxJ, distance, maxConnectionDistance, closestPair) ==
    IF Closer(distance, maxConnectionDistance, closestPair)
    THEN [start |-> nodeI, end |-> nodeJ,
          startNodeIndex |-> nodeIdxI, endNodeIndex |-> nodeIdxJ,
          distance |-> distance]
    ELSE closestPair

\* the inner loop over nodeIdxJ for one nodeI
RECURSIVE ClosestInnerLoop(_, _, _, _, _, _)
ClosestInnerNext(nodeI, nodeIdxI, nodesJ, maxConnectionDistance, nodeIdxJ, next) ==
    IF next = Null
    THEN ClosestInnerLoop(nodeI, nodeIdxI, nodesJ, maxConnectionDistance, nodeIdxJ, Null)
    ELSE ClosestInnerLoop(nodeI, nodeIdxI, nodesJ, maxConnectionDistance, nodeIdxJ, next)

ClosestInnerLoop(nodeI, nodeIdxI, nodesJ, maxConnectionDistance, nodeIdxJ, closestPair) ==
    IF nodeIdxJ >= Len(nodesJ) THEN closestPair
    ELSE ClosestInnerNext(nodeI, nodeIdxI, nodesJ, maxConnectionDistance, nodeIdxJ + 1,
             ClosestStep(nodeI, nodeIdxI, nodesJ[nodeIdxJ + 1], nodeIdxJ,
                         VDistance(nodeI, nodesJ[nodeIdxJ + 1]),
                         maxConnectionDistance, closestPair))

\* the outer loop over nodeIdxI for one pair of cubes
RECURSIVE ClosestPairLoop(_, _, _, _, _)
\* the outer loop with closestPair declared inside it: each nodeI starts anew
ClosestPairLastNode(nodesI, nodesJ, maxConnectionDistance, nodeIdxI, closestPair) ==
    IF nodeIdxI >= Len(nodesI) THEN closestPair
    ELSE ClosestPairLoop(nodesI, nodesJ, maxConnectionDistance, nodeIdxI + 1,
             ClosestInnerLoop(nodesI[nodeIdxI + 1], nodeIdxI, nodesJ,
                              maxConnectionDistance, 0, Null))

ClosestPairNext(nodesI, nodesJ, maxConnectionDistance, nodeIdxI, next) ==
    IF next = Null
    THEN ClosestPairLoop(nodesI, nodesJ, maxConnectionDistance, nodeIdxI, Null)
    ELSE ClosestPairLoop(nodesI, nodesJ, maxConnectionDistance, nodeIdxI, next)

ClosestPairLoop(nodesI, nodesJ, maxConnectionDistance, nodeIdxI, closestPair) ==
    IF nodeIdxI >= Len(nodesI) THEN closestPair
    ELSE ClosestPairNext(nodesI, nodesJ, maxConnectionDistance, nodeIdxI + 1,
             ClosestInnerLoop(nodesI[nodeIdxI + 1], nodeIdxI, nodesJ,
                              maxConnectionDistance, 0, closestPair))

\* Map.set(key, value)
MapSet(map, key, value) ==
    [k \in DOMAIN map \cup {key} |-> IF k = key THEN value ELSE map[k]]

EmptyMap == [k \in {} |-> Null]

\* the push with the nodeMap.set(...) of the start node alone
PushConnectionStartOnly(acc, i, j, closestPair, connectionIndex) ==
    IF closestPair = Null THEN acc
    ELSE [connections |->
             Append(acc.connections,
                    [start |-> closestPair.start, end |-> closestPair.end,
                     startCubeIndex |-> i,
                     startNodeIndex |-> closestPair.startNodeIndex,
                     endCubeIndex |-> j,
                     endNodeIndex |-> closestPair.endNodeIndex]),
          nodeConnectionMap |->
             MapSet(acc.nodeConnectionMap, <<i, closestPair.startNodeIndex>>,
                    [connectionIndex |-> connectionIndex])]

\* connections.push(...) and the two nodeMap.set(...) for a closest pair found
PushConnection(acc, i, j, closestPair, connectionIndex) ==
    IF closestPair = Null THEN acc
    ELSE [connections |->
             Append(acc.connections,
                    [start |-> closestPair.start, end |-> closestPair.end,
                     startCubeIndex |-> i,
                     startNodeIndex |-> closestPair.startNodeIndex,
                     endCubeIndex |-> j,
                     endNodeIndex |-> closestPair.endNodeIndex]),
          nodeConnectionMap |->
             MapSet(MapSet(acc.nodeConnectionMap,
                           <<i, closestPair.startNodeIndex>>,
                           [connectionIndex |-> connectionIndex]),
                    <<j, closestPair.endNodeIndex>>,
                    [connectionIndex |-> connectionIndex])]

\* the closest pair of nodes of cubes i and j within the threshold, or Null
ClosestPair(cubeData, maxConnectionDistance, i, j) ==
    ClosestPairLoop(cubeData[i + 1].nodePositions, cubeData[j + 1].nodePositions,
                    maxConnectionDistance, 0, Null)

\* the loops over the cube pairs i < j; acc is [connections, nodeConnectionMap]
RECURSIVE CubePairLoop(_, _, _, _, _)
\* the loops with the connection pushed from cube j to cube i
CubePairLoopSwapped(cubeData, maxConnectionDistance, i, j, acc) ==
    IF i >= Len(cubeData) THEN acc
    ELSE IF j >= Len(cubeData)
         THEN CubePairLoop(cubeData, maxConnectionDistance, i + 1, i + 2, acc)
         ELSE CubePairLoop(cubeData, maxConnectionDistance, i, j + 1,
                  PushConnection(acc, j, i,
                                 ClosestPair(cubeData, maxConnectionDistance, j, i),
                                 Len(acc.connections)))

CubePairLoop(cubeData, maxConnectionDistance, i, j, acc) ==
    IF i >= Len(cubeData) THEN acc
    ELSE IF j >= Len(cubeData)
         THEN CubePairLoop(cubeData, maxConnectionDistance, i + 1, i + 2, acc)
         ELSE CubePairLoop(cubeData, maxConnectionDistance, i, j + 1,
                  PushConnection(acc, i, j,
                                 ClosestPair(cubeData, maxConnectionDistance, i, j),
                                 Len(acc.connections)))

\* the { connections, nodeConnectionMap } memo
CubeConnections(cubeData, showConnections, maxConnectionDistance) ==
    IF ~showConnections
    THEN [connections |-> << >>, nodeConnectionMap |-> EmptyMap]
    ELSE CubePairLoop(cubeData, maxConnectionDistance, 0, 1,
                      [connections |-> << >>, nodeConnectionMap |-> EmptyMap])

(***************************************************************************)
(* Math.random                                                             *)
(***************************************************************************)
\* the generator's state after one call (a full-period congruential step)
RngNext(rng) == (rng * 21 + 7) % One

\* the generator's state after n calls
RECURSIVE RngAfter(_, _)
RngAfter(rng, n) == IF n <= 0 THEN rng ELSE RngAfter(RngNext(rng), n - 1)

\* the number in [0, 1) that a call made in state rng returns
MathRandom(rng) == rng

(***************************************************************************)
(* brain-graph/utils.ts                                                    *)
(***************************************************************************)
\* an optional field: undefined, or the value v
Undefined == << >>
Some(v) == <<v>>

\* randomDirection: theta from the first call, phi from the second
randomDirection(rng) ==
    SphericalPoint(One, Acos(2 * MathRandom(RngNext(rng)) - One),
                   Mul(MathRandom(rng), TwoPi))

\* the second fallback of perpAxis: set(0, 1, 0).cross(currentDir).normalize()
PerpAxisY(perpAxis, currentDir) ==
    IF VLength(perpAxis) < 1
    THEN VNormalize(VCross(Vec(0, One, 0), currentDir))
    ELSE perpAxis

\* the first fallback: set(1, 0, 0).cross(currentDir).normalize()
PerpAxisX(perpAxis, currentDir) ==
    IF VLength(perpAxis) < 1
    THEN PerpAxisY(VNormalize(VCross(Vec(One, 0, 0), currentDir)), currentDir)
    ELSE perpAxis

\* perpAxis: currentDir.clone().cross(randomAxis).normalize(), then the fallbacks
PerpAxis(currentDir, randomAxis) ==
    PerpAxisX(VNormalize(VCross(currentDir, randomAxis)), currentDir)

\* v turned about the unit axis by the angle of cosine c and sine s:
\* v c + (axis x v) s + axis (axis . v) (1 - c)
AxisAngle(v, axis, c, s) ==
    VAdd(VAdd(VScale(v, c), VScale(VCross(axis, v), s)),
         VScale(axis, Mul(VDot(axis, v), One - c)))

\* currentDir.applyQuaternion(setFromAxisAngle(perpAxis, rotationAngle)).normalize()
Turned(currentDir, perpAxis, rotationAngle) ==
    VNormalize(AxisAngle(currentDir, perpAxis, Cos(rotationAngle), Sin(rotationAngle)))

\* the loop of generateBranchPoints; each pass makes three calls of Math.random
RECURSIVE BranchPointsLoop(_, _, _, _, _)
\* the push with every step taken from the first point
BranchPointsPushFromFirst(config, i, points, currentDir, rng) ==
    BranchPointsLoop(config, i, Append(points,
                         VAdd(points[1], VScale(currentDir, config.stepLength))),
                     currentDir, rng)

BranchPointsPush(config, i, points, currentDir, rng) ==
    BranchPointsLoop(config, i, Append(points,
                         VAdd(points[Len(points)], VScale(currentDir, config.stepLength))),
                     currentDir, rng)

BranchPointsLoop(config, i, points, currentDir, rng) ==
    IF i >= config.segments THEN points
    ELSE BranchPointsPush(config, i + 1, points,
             Turned(currentDir, PerpAxis(currentDir, randomDirection(rng)),
                    Mul(MathRandom(RngAfter(rng, 2)) - 500, config.curvature)),
             RngAfter(rng, 3))

generateBranchPoints(config, rng) ==
    BranchPointsLoop(config, 0, << config.origin >>, VNormalize(config.direction), rng)

\* the calls of Math.random that generateBranchPoints makes
BranchDraws(segments) == 3 * segments

\* the map with every point scaled about the world origin
ScalePointsAboutZero(points, origin, scale) ==
    [k \in 1..Len(points) |-> VScale(points[k], scale)]

\* points.map((p) => origin + (p - origin) * scale)
ScalePoints(points, origin, scale) ==
    [k \in 1..Len(points) |-> VAdd(origin, VScale(VSub(points[k], origin), scale))]

NormalizeFrom(points, origin, targetRadius, currentRadius) ==
    IF currentRadius < 1 THEN points
    ELSE ScalePoints(points, origin, Div(targetRadius, currentRadius))

\* currentRadius measured at the first point in the place of the endpoint
normalizeBranchToRadiusFromFirst(points, origin, targetRadius) ==
    IF Len(points) < 2 THEN points
    ELSE NormalizeFrom(points, origin, targetRadius, VLength(VSub(points[1], origin)))

normalizeBranchToRadius(points, origin, targetRadius) ==
    IF Len(points) < 2 THEN points
    ELSE NormalizeFrom(points, origin, targetRadius,
                       VLength(VSub(points[Len(points)], origin)))

\* the loop of clipBranchToRadius
RECURSIVE ClipLoop(_, _, _, _)
\* the loop with continue in the place of break
ClipLoopSkip(points, maxRadius, k, clipped) ==
    IF k > Len(points) THEN clipped
    ELSE IF VLength(points[k]) > maxRadius
         THEN ClipLoop(points, maxRadius, k + 1, clipped)
    ELSE ClipLoop(points, maxRadius, k + 1, Append(clipped, points[k]))

ClipLoop(points, maxRadius, k, clipped) ==
    IF k > Len(points) THEN clipped
    ELSE IF VLength(points[k]) > maxRadius THEN clipped
    ELSE ClipLoop(points, maxRadius, k + 1, Append(clipped, points[k]))

clipBranchToRadius(points, maxRadius) == ClipLoop(points, maxRadius, 1, << >>)

\* new THREE.CatmullRomCurve3(points): the curve keeps the array it is given
CatmullRomCurve3(points) == [points |-> points]

\* if (config.targetRadius !== undefined) points = normalizeBranchToRadius(...)
NormalizeIfTarget(config, points) ==
    IF config.targetRadius # Undefined
    THEN normalizeBranchToRadius(points, config.origin, config.targetRadius[1])
    ELSE points

\* if (config.maxRadius !== undefined) points = clipBranchToRadius(...)
ClipIfMax(config, points) ==
    IF config.maxRadius # Undefined
    THEN clipBranchToRadius(points, config.maxRadius[1])
    ELSE points

\* the points of generateBranch after normalization and clipping
ShapedPoints(config, rng) ==
    ClipIfMax(config, NormalizeIfTarget(config, generateBranchPoints(config, rng)))

\* a branch returned for any non-empty point list
BranchOfAny(points) ==
    IF Len(points) < 1 THEN Null
    ELSE [points |-> points, curve |-> CatmullRomCurve3(points)]

\* if (points.length < 2) return null; else { points, curve }
BranchOf(points) ==
    IF Len(points) < 2 THEN Null
    ELSE [points |-> points, curve |-> CatmullRomCurve3(points)]

generateBranch(config, rng) == BranchOf(ShapedPoints(config, rng))

\* THREE.CatmullRomCurve3 is read through getPointAt(u) and getTangentAt(u),
\* the point and the unit tangent at the fraction u of the curve's arc length;
\* the curve is taken along the polyline of its control points.
RECURSIVE PolylineLength(_, _)
PolylineLength(points, k) ==
    IF k >= Len(points) THEN 0
    ELSE VDistance(points[k], points[k + 1]) + PolylineLength(points, k + 1)

\* the segment [k, k + 1] of the polyline that holds the arc length d from
\* point k on, and what of d is left inside it
RECURSIVE SegmentAt(_, _, _)
SegmentAt(points, k, d) ==
    IF k + 1 >= Len(points) \/ d <= VDistance(points[k], points[k + 1])
    THEN [k |-> k, d |-> d]
    ELSE SegmentAt(points, k + 1, d - VDistance(points[k], points[k + 1]))

\* the point at distance at.d from point at.k towards the next one
PointIn(points, at) ==
    VAdd(points[at.k], VScale(VNormalize(VSub(points[at.k + 1], points[at.k])), at.d))
TangentIn(points, at) == VNormalize(VSub(points[at.k + 1], points[at.k]))

getPointAt(curve, u) ==
    PointIn(curve.points, SegmentAt(curve.points, 1, Mul(u, PolylineLength(curve.points, 1))))
getTangentAt(curve, u) ==
    TangentIn(curve.points,
              SegmentAt(curve.points, 1, Mul(u, PolylineLength(curve.points, 1))))

\* the segment and the weight of getPoint(t): p = (l - 1) * t,
\* intPoint = Math.floor(p), weight = p - intPoint, and the end of the curve
\* taken as weight 1 of the last segment
SegmentOf(l, p) ==
    IF p % One = 0 /\ p \div One = l - 1
    THEN [k |-> l - 1, weight |-> One]
    ELSE [k |-> p \div One + 1, weight |-> p % One]

PointOf(points, at) ==
    VAdd(points[at.k], VScale(VSub(points[at.k + 1], points[at.k]), at.weight))

\* getPoint(t): the point at the parameter t, uniform over the segments
getPoint(curve, t) ==
    PointOf(curve.points, SegmentOf(Len(curve.points), (Len(curve.points) - 1) * t))

\* getPoints(divisions): the points at t = d / divisions, d = 0 .. divisions
getPoints(curve, divisions) ==
    [d \in 1..(divisions + 1) |-> getPoint(curve, RoundDiv((d - 1) * One, divisions))]

\* up without the test of the tangent
UpAlwaysY(tangent) == Vec(0, One, 0)

\* up: (0, 1, 0), or (1, 0, 0) when the tangent is within 0.99 of it
UpFor(tangent) ==
    IF Abs(VDot(tangent, Vec(0, One, 0))) > 990 THEN Vec(One, 0, 0) ELSE Vec(0, One, 0)

\* direction = tangent * (1 - offsetStrength) + perpDir * offsetStrength, normalized
Combined(tangent, perpDir, offsetStrength) ==
    VNormalize(VAdd(VScale(tangent, One - offsetStrength),
                    VScale(perpDir, offsetStrength)))

\* perpDir = normal * cos(angle) + binormal * sin(angle)
PerpDir(normal, binormal, angle) ==
    VAdd(VScale(normal, Cos(angle)), VScale(binormal, Sin(angle)))

SubDirectionIn(tangent, normal, offsetStrength, angle) ==
    Combined(tangent, PerpDir(normal, VNormalize(VCross(tangent, normal)), angle),
             offsetStrength)

SubDirectionAlong(tangent, offsetStrength, angle) ==
    SubDirectionIn(tangent, VNormalize(VCross(tangent, UpFor(tangent))),
                   offsetStrength, angle)

\* getSubBranchDirection; it makes one call of Math.random, for the angle
getSubBranchDirection(parentCurve, t, offsetStrength, rng) ==
    SubDirectionAlong(getTangentAt(parentCurve, t), offsetStrength,
                      Mul(MathRandom(rng), TwoPi))

\* a / b of JavaScript numbers; b = 0 gives an infinity, which no loop pass
\* reads: a branch of 0 segments has no pass
Infinity == One * One * One
Quotient(a, b) == IF b = 0 THEN Infinity ELSE Div(a, b * One)

\* the argument with the clipping of the sub-branches applied as well
MainBranchConfigClipped(config, direction) ==
    [origin |-> Zero3, direction |-> direction, segments |-> config.segments,
     curvature |-> config.curvature,
     stepLength |-> Quotient(config.mainRadius, config.segments),
     targetRadius |-> Some(config.mainRadius),
     maxRadius |-> Some(Mul(config.mainRadius, 500))]

\* the argument of generateBranch for a main branch
MainBranchConfig(config, direction) ==
    [origin |-> Zero3, direction |-> direction, segments |-> config.segments,
     curvature |-> config.curvature,
     stepLength |-> Quotient(config.mainRadius, config.segments),
     targetRadius |-> Some(config.mainRadius), maxRadius |-> Undefined]

\* the argument of generateBranch for a sub-branch
SubBranchConfig(config, spawnPoint, subDirection) ==
    [origin |-> spawnPoint, direction |-> subDirection,
     segments |-> config.subBranchSegments,
     curvature |-> config.subBranchCurvature,
     stepLength |-> Quotient(config.maxRadius - Mul(config.mainRadius, 500),
                             config.subBranchSegments),
     targetRadius |-> Undefined, maxRadius |-> Some(config.maxRadius)]

\* the position taken anywhere along the parent: Math.random()
SpawnTAnywhere(rng) == MathRandom(rng)

\* the position t of a spawn point: 0.2 + Math.random() * 0.6
SpawnT(rng) == 200 + Mul(MathRandom(rng), 600)

\* one pass of the loop over j: t from the first call, the angle of the
\* direction from the second, then the sub-branch
SubBranchAt(config, curve, t, rng) ==
    generateBranch(SubBranchConfig(config, getPointAt(curve, t),
                       getSubBranchDirection(curve, t, config.subBranchOffset,
                                             RngNext(rng))),
                   RngAfter(rng, 2))

\* the calls of Math.random in one pass of the loop over j
SubBranchDraws(config) == 2 + BranchDraws(config.subBranchSegments)

\* if (subBranch) subBranches.push(subBranch)
PushBranch(branches, branch) == IF branch = Null THEN branches ELSE Append(branches, branch)

\* the loop over j for one main branch
RECURSIVE SubBranchLoop(_, _, _, _, _)
SubBranchLoop(config, curve, j, rng, subBranches) ==
    IF j >= config.subBranchCount THEN subBranches
    ELSE SubBranchLoop(config, curve, j + 1, RngAfter(rng, SubBranchDraws(config)),
             PushBranch(subBranches, SubBranchAt(config, curve, SpawnT(rng), rng)))

\* the loop over i; graph is [mainBranches, subBranches]
RECURSIVE MainBranchLoop(_, _, _, _)
MainBranchPass(config, i, rng, graph, branch) ==
    IF branch = Null
    THEN MainBranchLoop(config, i, RngAfter(rng, 2 + BranchDraws(config.segments)), graph)
    ELSE MainBranchLoop(config, i,
             RngAfter(rng, 2 + BranchDraws(config.segments)
                              + config.subBranchCount * SubBranchDraws(config)),
             [mainBranches |-> Append(graph.mainBranches, branch),
              subBranches |->
                 SubBranchLoop(config, branch.curve, 0,
                               RngAfter(rng, 2 + BranchDraws(config.segments)),
                               graph.subBranches)])

MainBranchLoop(config, i, rng, graph) ==
    \* i < config.mainBranchCount is false when the field is undefined
    IF "mainBranchCount" \notin DOMAIN config \/ i >= config.mainBranchCount THEN graph
    ELSE MainBranchPass(config, i + 1, rng, graph,
             generateBranch(MainBranchConfig(config, randomDirection(rng)),
                            RngAfter(rng, 2)))

\* generateBrainGraph(config), run with the generator in state rng
generateBrainGraph(config, rng) ==
    MainBranchLoop(config, 0, rng, [mainBranches |-> << >>, subBranches |-> << >>])

(***************************************************************************)
(* The Vector3 objects of a call of generateBranch                         *)
(***************************************************************************)
\* a heap maps the names of the Vector3 objects alive to their coordinates:
\* "origin" and "direction" are the objects of config, "points0",
\* "currentDir" and "scaled" are made by clone()
ConfigHeap(config) == [ref \in {"origin", "direction"} |-> config[ref]]

\* heap[ref].clone() as the new object name
Clone(heap, ref, name) == MapSet(heap, name, heap[ref])

\* heap[ref].normalize() changes the object it is called on
NormalizeAt(heap, ref) == MapSet(heap, ref, VNormalize(heap[ref]))

\* the loop of generateBranchPoints on the heap: currentDir names the object
\* that applyQuaternion and normalize change in every pass; the points pushed
\* are new objects made from lastPoint.clone()
RECURSIVE BranchPointsHeapLoop(_, _, _, _, _)
BranchPointsHeapLoop(config, i, heap, currentDir, rng) ==
    IF i >= config.segments THEN heap
    ELSE BranchPointsHeapLoop(config, i + 1,
             MapSet(heap, currentDir,
                    Turned(heap[currentDir],
                           PerpAxis(heap[currentDir], randomDirection(rng)),
                           Mul(MathRandom(RngAfter(rng, 2)) - 500, config.curvature))),
             currentDir, RngAfter(rng, 3))

\* the loop run on config.direction itself: currentDir = direction.normalize()
BranchPointsHeapShared(config, rng) ==
    BranchPointsHeapLoop(config, 0,
        NormalizeAt(Clone(ConfigHeap(config), "origin", "points0"), "direction"),
        "direction", rng)

\* the heap after generateBranchPoints: points = [origin.clone()],
\* currentDir = direction.clone().normalize(), then the loop
BranchPointsHeap(config, rng) ==
    BranchPointsHeapLoop(config, 0,
        NormalizeAt(Clone(Clone(ConfigHeap(config), "origin", "points0"),
                          "direction", "currentDir"),
                    "currentDir"),
        "currentDir", rng)

\* the heap after normalizeBranchToRadius(points, origin, targetRadius): every
\* point returned is origin.clone() with the scaled offset added to the clone
NormalizeHeap(heap, points, targetRadius) ==
    IF Len(points) < 2 \/ VLength(VSub(points[Len(points)], heap["origin"])) < 1
    THEN heap
    ELSE MapSet(Clone(heap, "origin", "scaled"), "scaled",
                normalizeBranchToRadius(points, heap["origin"], targetRadius)[Len(points)])

\* the heap after generateBranch(config); clipBranchToRadius and the curve
\* only read the points
BranchHeap(config, rng) ==
    IF config.targetRadius # Undefined
    THEN NormalizeHeap(BranchPointsHeap(config, rng), generateBranchPoints(config, rng),
                       config.targetRadius[1])
    ELSE BranchPointsHeap(config, rng)

\* the origin object of generateBrainGraph after the loop over i: every main
\* branch is generated with the same object as config.origin
RECURSIVE SharedOriginLoop(_, _, _, _)
SharedOriginPass(config, i, rng, branchConfig) ==
    SharedOriginLoop(config, i,
        IF generateBranch(branchConfig, RngAfter(rng, 2)) = Null
        THEN RngAfter(rng, 2 + BranchDraws(config.segments))
        ELSE RngAfter(rng, 2 + BranchDraws(config.segments)
                              + config.subBranchCount * SubBranchDraws(config)),
        BranchHeap(branchConfig, RngAfter(rng, 2))["origin"])

SharedOriginLoop(config, i, rng, origin) ==
    IF "mainBranchCount" \notin DOMAIN config \/ i >= config.mainBranchCount THEN origin
    ELSE SharedOriginPass(config, i + 1, rng,
             [MainBranchConfig(config, randomDirection(rng)) EXCEPT !.origin = origin])

(***************************************************************************)
(* BranchLine and ConnectionLine: the sampled geometry of a curve          *)
(***************************************************************************)
\* a point at distance l from the world origin moved to distance
\* Math.pow(l, 0.5); a point within 0.0001 of the origin is kept
Remapped(point, l) ==
    IF l < 1 THEN point ELSE VScale(VScale(point, Div(One, l)), ISqrt(l * One))

branchRemap(points) == [k \in 1..Len(points) |-> Remapped(points[k], VLength(points[k]))]

\* progress[i] = i / points.length
BranchProgressByLength(points) ==
    [k \in 1..Len(points) |-> Quotient((k - 1) * One, Len(points))]

\* progress[i] = i / (points.length - 1)
BranchProgress(points) ==
    [k \in 1..Len(points) |-> Quotient((k - 1) * One, Len(points) - 1)]

\* new THREE.BufferGeometry().setFromPoints(points) with the attribute
\* branchProgress set
Geometry(points) == [points |-> points, branchProgress |-> BranchProgress(points)]

\* the geometry memo of BranchLine
BranchLine(branch, resolution) ==
    Geometry(branchRemap(getPoints(branch.curve, resolution)))

\* the argument of Math.sin in the seededRandom of ConnectionLine,
\* seed * 12.9898 + connectionIndex * 78.233 + offset * 43.758, times 10^4
ConnectionHashArg(seed, connectionIndex, offset) ==
    seed * 129898 + connectionIndex * 782330 + offset * 437580

ConnectionRandom(seed, connectionIndex, offset) ==
    HashFraction(Sin(RoundDiv((ConnectionHashArg(seed, connectionIndex, offset) * 10)
                                 % 628319, 100)))

\* lerpVectors(start, end, alpha)
Lerp(start, end, alpha) == VAdd(start, VScale(VSub(end, start), alpha))

\* the control point at alpha, moved by (seededRandom(o .. o + 2) - 0.5) * 0.5
ControlPoint(start, end, alpha, seed, connectionIndex, o) ==
    VAdd(Lerp(start, end, alpha),
         Vec(Mul(ConnectionRandom(seed, connectionIndex, o) - 500, 500),
             Mul(ConnectionRandom(seed, connectionIndex, o + 1) - 500, 500),
             Mul(ConnectionRandom(seed, connectionIndex, o + 2) - 500, 500)))

\* the curve memo of ConnectionLine
ConnectionCurve(start, end, seed, connectionIndex) ==
    CatmullRomCurve3(<< start,
                        ControlPoint(start, end, 330, seed, connectionIndex, 1),
                        ControlPoint(start, end, 670, seed, connectionIndex, 4),
                        end >>)

\* the lineGeometry memo of ConnectionLine
lineGeometry(curve, resolution) == Geometry(getPoints(curve, resolution))

(***************************************************************************)
(* The Vector3 objects of a render of BrainGraph                           *)
(***************************************************************************)
\* a heap maps the Vector3 objects alive to their coordinates; control point
\* k of the branch is the object <<"points", k>>, point k of the array that
\* getPoints returns is <<"sampled", k>>, the clone made for the spawn box is
\* <<"spawnPoint", 1>>
ControlPointRefs(n) == {<<"points", k>> : k \in 1..n}
SampledRefs(resolution) == {<<"sampled", k>> : k \in 1..(resolution + 1)}
SpawnPointRef == <<"spawnPoint", 1>>

\* the heap that holds the control points of a branch
HeapOf(points) == [ref \in ControlPointRefs(Len(points)) |-> points[ref[2]]]

\* new THREE.Vector3 objects refs with the coordinates values
Allocate(heap, refs, values) ==
    [ref \in DOMAIN heap \cup refs |-> IF ref \in refs THEN values[ref[2]] ELSE heap[ref]]

\* branchRemap on the objects refs: point.multiplyScalar(1 / l).multiplyScalar(newL)
\* changes the object it is called on
RemapInPlace(heap, refs) ==
    [ref \in DOMAIN heap |->
        IF ref \in refs THEN Remapped(heap[ref], VLength(heap[ref])) ELSE heap[ref]]

\* the array of objects named prefix, read from the heap
ReadRefs(heap, prefix, n) == [k \in 1..n |-> heap[<<prefix, k>>]]

\* the geometry memo with branchRemap called on the control points as well
BranchLineHeapShared(heap, branch, resolution) ==
    RemapInPlace(Allocate(heap, SampledRefs(resolution),
                          getPoints(branch.curve, resolution)),
                 SampledRefs(resolution) \cup ControlPointRefs(Len(branch.points)))

\* the heap after the geometry memo of BranchLine: getPoints allocates the
\* sampled points, branchRemap changes them
BranchLineHeap(heap, branch, resolution) ==
    RemapInPlace(Allocate(heap, SampledRefs(resolution),
                          getPoints(branch.curve, resolution)),
                 SampledRefs(resolution))

\* the heap after one pass of the map of subBranchSpawnData:
\* spawnPoint = branch.points[0].clone(), then remapped in place
SpawnHeap(heap) ==
    RemapInPlace(Allocate(heap, {SpawnPointRef}, <<heap[<<"points", 1>>]>>),
                 {SpawnPointRef})

\* new THREE.Euler(seededRandom(index, 0..2) * Math.PI * 2)
SpawnRotation(seed, index) ==
    Vec(Mul(ConnectionRandom(seed, index, 0), TwoPi),
        Mul(ConnectionRandom(seed, index, 1), TwoPi),
        Mul(ConnectionRandom(seed, index, 2), TwoPi))

\* what a render leaves: the points array of the branch, the geometry of its
\* BranchLine and its entry of subBranchSpawnData
RenderedFrom(heap, n, resolution, seed, index) ==
    [points |-> ReadRefs(heap, "points", n),
     geometry |-> Geometry(ReadRefs(heap, "sampled", resolution + 1)),
     position |-> heap[SpawnPointRef], rotation |-> SpawnRotation(seed, index),
     branchIndex |-> index]

\* BrainGraph rendered for a graph whose sub-branch index is branch
RenderBranch(branch, resolution, seed, index) ==
    RenderedFrom(SpawnHeap(BranchLineHeap(HeapOf(branch.points), branch, resolution)),
                 Len(branch.points), resolution, seed, index)

(***************************************************************************)
(* The scenes: state, bounds and handlers                                  *)
(***************************************************************************)
VARIABLES
    page,         \* the scene that is mounted: "neuron" or "cube"
    seed,         \* Scene: const [seed, setSeed] = useState(0)
    controls,     \* the values of the control panel and the fixed props
    neuronGraph,  \* per instance: the memos of NeuronGraph
    cubeGraph,    \* per instance: the memos of CubeGraph
    brainGraph,   \* per instance: the graph memo of BrainGraph
    call          \* a call of a function of brain-graph/utils.ts on its own

vars == <<page, seed, controls, neuronGraph, cubeGraph, brainGraph, call>>

\* Regenerate can be pressed MaxSeed times
MaxSeed == 3
\* the largest neuronCount and the largest cubeCount of the panel
MaxNeurons == 5
MaxCubes == 4

\* two instances of the graph component are rendered from the same seed and
\* the same props: two independent generation runs
Runs == {1, 2}

\* the props the scenes pass to the graph components (fixed-point), from
\* small sets: the components take any value of these props
Separations == {1000, 3200}
ConnectionDistances == {1000, 1500}
NeuronControls ==
    [neuronCount : 0..MaxNeurons, distribution : {"clustered", "uniform"},
     spread : {2000, 10 * One}, separation : Separations, scale : {200},
     showConnections : BOOLEAN, maxConnectionDistance : ConnectionDistances]
CubeControls ==
    [cubeCount : 0..MaxCubes, spread : {2000, 3000}, cubeSize : {200},
     showConnections : BOOLEAN, maxConnectionDistance : ConnectionDistances]

\* the fields the panel can change; distribution and spread of the neuron
\* scene are props written in the scene's JSX
NeuronPanel == {"neuronCount", "separation", "scale", "showConnections",
                "maxConnectionDistance"}
CubePanel == {"cubeCount", "spread", "cubeSize", "showConnections",
              "maxConnectionDistance"}

\* prev is what an instance holds from its last render, Null before the first.
\* A memo is recomputed when one of its dependencies changed.
FirstRender(prev) == prev = Null

\* [neuronCount, seed, spread, separation, scale, distribution]
NeuronPositionsStale(s, c, prevSeed, prevControls, prev) ==
    \/ FirstRender(prev)
    \/ s # prevSeed
    \/ \E f \in {"neuronCount", "spread", "separation", "scale", "distribution"} :
          c[f] # prevControls[f]

\* [neuronPositions, showConnections, maxConnectionDistance]
NeuronConnectionsStale(s, c, prevSeed, prevControls, prev) ==
    \/ NeuronPositionsStale(s, c, prevSeed, prevControls, prev)
    \/ c.showConnections # prevControls.showConnections
    \/ c.maxConnectionDistance # prevControls.maxConnectionDistance

NeuronPositionsMemo(s, c, prev, stale) ==
    IF stale THEN NeuronPositions(s, c) ELSE prev.neuronPositions

NeuronConnectionsMemo(c, prev, stale, neuronPositions) ==
    [neuronPositions |-> neuronPositions,
     connections |->
        IF stale
        THEN NeuronConnections(neuronPositions, c.showConnections,
                               c.maxConnectionDistance)
        ELSE prev.connections]

\* the two memos of NeuronGraph
NeuronGraphMemos(s, c, prevSeed, prevControls, prev) ==
    NeuronConnectionsMemo(c, prev,
        NeuronConnectionsStale(s, c, prevSeed, prevControls, prev),
        NeuronPositionsMemo(s, c, prev,
            NeuronPositionsStale(s, c, prevSeed, prevControls, prev)))

\* NeuronGraph with the seed of instance r offset by r: a generator that
\* draws from a source the props do not fix
NeuronGraphOwnSeed(r, s, c, prevSeed, prevControls, prev) ==
    NeuronGraphMemos(s + r, c, prevSeed + r, prevControls, prev)

\* instance r of NeuronGraph rendered with the props (seed, controls)
NeuronGraph(r, s, c, prevSeed, prevControls, prev) ==
    NeuronGraphMemos(s, c, prevSeed, prevControls, prev)

\* [cubeCount, seed, spread, cubeSize]
CubeDataStale(s, c, prevSeed, prevControls, prev) ==
    \/ FirstRender(prev)
    \/ s # prevSeed
    \/ \E f \in {"cubeCount", "spread", "cubeSize"} : c[f] # prevControls[f]

\* [cubeData, showConnections, maxConnectionDistance]
CubeConnectionsStale(s, c, prevSeed, prevControls, prev) ==
    \/ CubeDataStale(s, c, prevSeed, prevControls, prev)
    \/ c.showConnections # prevControls.showConnections
    \/ c.maxConnectionDistance # prevControls.maxConnectionDistance

CubeDataMemo(s, c, prev, stale) == IF stale THEN CubeData(s, c) ELSE prev.cubeData

CubeConnectionsMemo(c, prev, stale, cubeData) ==
    IF stale
    THEN CubeConnections(cubeData, c.showConnections, c.maxConnectionDistance)
    ELSE [connections |-> prev.connections, nodeConnectionMap |-> prev.nodeConnectionMap]

CubeMemos(cubeData, found) ==
    [cubeData |-> cubeData, connections |-> found.connections,
     nodeConnectionMap |-> found.nodeConnectionMap]

CubeFound(c, prev, stale, cubeData) ==
    CubeMemos(cubeData, CubeConnectionsMemo(c, prev, stale, cubeData))

\* the two memos of CubeGraph
CubeGraphMemos(s, c, prevSeed, prevControls, prev) ==
    CubeFound(c, prev, CubeConnectionsStale(s, c, prevSeed, prevControls, prev),
              CubeDataMemo(s, c, prev,
                           CubeDataStale(s, c, prevSeed, prevControls, prev)))

\* instance r of CubeGraph rendered with the props (seed, controls)
CubeGraph(r, s, c, prevSeed, prevControls, prev) ==
    CubeGraphMemos(s, c, prevSeed, prevControls, prev)

NotMounted == [r \in Runs |-> Null]
NoCall == [fn |-> "none"]

InitNeuron ==
    /\ page = "neuron"
    /\ seed = 0
    /\ controls \in NeuronControls
    /\ neuronGraph = [r \in Runs |-> NeuronGraph(r, seed, controls, seed, controls, Null)]
    /\ cubeGraph = NotMounted
    /\ brainGraph = NotMounted
    /\ call = NoCall

InitCube ==
    /\ page = "cube"
    /\ seed = 0
    /\ controls \in CubeControls
    /\ cubeGraph = [r \in Runs |-> CubeGraph(r, seed, controls, seed, controls, Null)]
    /\ neuronGraph = NotMounted
    /\ brainGraph = NotMounted
    /\ call = NoCall

Init == InitNeuron \/ InitCube

\* the render that follows a state change of the neuron scene
RenderNeuron ==
    /\ neuronGraph' = [r \in Runs |->
           NeuronGraph(r, seed', controls', seed, controls, neuronGraph[r])]
    /\ UNCHANGED <<page, cubeGraph, brainGraph, call>>

RenderCube ==
    /\ cubeGraph' = [r \in Runs |->
           CubeGraph(r, seed', controls', seed, controls, cubeGraph[r])]
    /\ UNCHANGED <<page, neuronGraph, brainGraph, call>>

\* c differs from controls in exactly one field of the panel
OneChange(c, panel) ==
    \E f \in panel :
        /\ c[f] # controls[f]
        /\ \A g \in DOMAIN controls \ {f} : c[g] = controls[g]

\* Regenerate: button(() => setSeed((s) => s + 1))
NeuronRegenerate ==
    /\ page = "neuron"
    /\ seed < MaxSeed
    /\ seed' = seed + 1
    /\ controls' = controls
    /\ RenderNeuron

\* the user moves one control of the neuron panel
NeuronSetControl ==
    /\ page = "neuron"
    /\ \E c \in NeuronControls : OneChange(c, NeuronPanel) /\ controls' = c
    /\ seed' = seed
    /\ RenderNeuron

CubeRegenerate ==
    /\ page = "cube"
    /\ seed < MaxSeed
    /\ seed' = seed + 1
    /\ controls' = controls
    /\ RenderCube

CubeSetControl ==
    /\ page = "cube"
    /\ \E c \in CubeControls : OneChange(c, CubePanel) /\ controls' = c
    /\ seed' = seed
    /\ RenderCube

Next == NeuronRegenerate \/ NeuronSetControl \/ CubeRegenerate \/ CubeSetControl

Spec == Init /\ [][Next]_vars

(***************************************************************************)
(* The brain scene                                                         *)
(***************************************************************************)
\* the largest mainBranchCount and the largest segments of the panel
MaxBranches == 2
MaxSegments == 2

\* the states the engine's generator can be in when a generation run starts
RngStates == {0, 123, 502}

\* the props the brain scene passes on, from small sets: the fields of
\* GraphConfig, color, opacity and resolution
BrainControls ==
    [mainBranchCount : 0..MaxBranches, subBranchCount : {0, 1},
     mainRadius : {One}, maxRadius : {1500}, segments : 0..MaxSegments,
     curvature : {1300}, subBranchOffset : {350}, subBranchSegments : {1, 2},
     subBranchCurvature : {350}, color : {"#000000", "#797979"},
     opacity : {One}, resolution : {2, 3}]

\* the controls of the Scene of components/brain-graph/scene.tsx: the panel
\* has icosahedronRadius and icosahedronDetail and no mainBranchCount
IcosahedronControls ==
    [icosahedronRadius : {One}, icosahedronDetail : {0, 1}, subBranchCount : {0, 1},
     mainRadius : {One}, maxRadius : {1500}, segments : 0..MaxSegments,
     curvature : {1300}, subBranchOffset : {350}, subBranchSegments : {1, 2},
     subBranchCurvature : {350}, color : {"#000000", "#797979"},
     opacity : {500, One}, resolution : {2, 3}]

\* the controls of the two scenes that mount BrainGraph
SceneControls == BrainControls \cup IcosahedronControls

ConfigFields ==
    {"mainBranchCount", "subBranchCount", "mainRadius", "maxRadius", "segments",
     "curvature", "subBranchOffset", "subBranchSegments", "subBranchCurvature"}

\* the fields the graphConfig memo of scene.tsx copies from its controls
IcosahedronFields ==
    {"icosahedronRadius", "icosahedronDetail", "subBranchCount", "mainRadius",
     "maxRadius", "segments", "curvature", "subBranchOffset", "subBranchSegments",
     "subBranchCurvature"}

\* the graphConfig memo of Scene: each scene copies the fields it lists
GraphConfigOf(c) ==
    IF "mainBranchCount" \in DOMAIN c THEN [f \in ConfigFields |-> c[f]]
    ELSE [f \in IcosahedronFields |-> c[f]]

\* the values of GraphConfig the scene passes on
GraphConfigs == {GraphConfigOf(c) : c \in BrainControls}

BrainPanel ==
    ConfigFields \cup IcosahedronFields \cup {"color", "opacity", "resolution"}

\* the values of config the two scenes pass on
SceneConfigs == {GraphConfigOf(c) : c \in SceneControls}

\* generateBrainGraph for every configuration and generator state of the
\* bounds, computed once
BrainGraphs ==
    [config \in SceneConfigs |-> [rng \in RngStates |-> generateBrainGraph(config, rng)]]

\* the graph memo with every prop among its dependencies
BrainGraphStaleAnyProp(s, c, prevSeed, prevControls, prev) ==
    \/ FirstRender(prev)
    \/ s # prevSeed
    \/ c # prevControls

\* [config, seed]: seed is a dependency only (void seed)
BrainGraphStale(s, c, prevSeed, prevControls, prev) ==
    \/ FirstRender(prev)
    \/ s # prevSeed
    \/ GraphConfigOf(c) # GraphConfigOf(prevControls)

\* the graph memo of instance r of BrainGraph; rng is the state of the
\* generator when the instance renders
BrainGraph(r, s, c, rng, prevSeed, prevControls, prev) ==
    IF BrainGraphStale(s, c, prevSeed, prevControls, prev)
    THEN BrainGraphs[GraphConfigOf(c)][rng]
    ELSE prev

InitBrain ==
    /\ page = "brain"
    /\ seed = 0
    /\ controls \in SceneControls
    /\ \E rs \in [Runs -> RngStates] :
          brainGraph = [r \in Runs |->
                           BrainGraph(r, seed, controls, rs[r], seed, controls, Null)]
    /\ neuronGraph = NotMounted
    /\ cubeGraph = NotMounted
    /\ call = NoCall

\* the render that follows a state change of the brain scene
RenderBrain ==
    /\ \E rs \in [Runs -> RngStates] :
          brainGraph' = [r \in Runs |->
              BrainGraph(r, seed', controls', rs[r], seed, controls, brainGraph[r])]
    /\ UNCHANGED <<page, neuronGraph, cubeGraph, call>>

\* Regenerate: button(() => setSeed((s) => s + 1))
BrainRegenerate ==
    /\ page = "brain"
    /\ seed < MaxSeed
    /\ seed' = seed + 1
    /\ controls' = controls
    /\ RenderBrain

\* the user moves one control of the brain panel
BrainSetControl ==
    /\ page = "brain"
    /\ \E c \in SceneControls :
          /\ DOMAIN c = DOMAIN controls
          /\ OneChange(c, BrainPanel \cap DOMAIN controls)
          /\ controls' = c
    /\ seed' = seed
    /\ RenderBrain

NextBrain == BrainRegenerate \/ BrainSetControl

SpecBrain == InitBrain /\ [][NextBrain]_vars

(***************************************************************************)
(* The functions of brain-graph/utils.ts, called on their own              *)
(***************************************************************************)
\* the largest neuronCount whose grid cells are computed on their own
MaxGridNeurons == 28
\* the cubes the connections memo is called with on its own
MaxCalledCubes == 3
\* the longest point list passed to the shaping functions
MaxPoints == 3
\* the largest resolution passed to BranchLine and ConnectionLine
MaxResolution == 4

Points == {Zero3, Vec(One, 0, 0), Vec(0, 2 * One, 0), Vec(500, 500, 0)}
PointLists == UNION {[1..n -> Points] : n \in 0..MaxPoints}
Origins == {Zero3, Vec(500, 0, 0)}
CallRngStates == {0, 123, 400, 502, 777}

BranchConfigs ==
    [origin : Origins, direction : {Vec(0, 0, One), Vec(One, One, 0)},
     segments : 0..MaxSegments, curvature : {1300}, stepLength : {500},
     targetRadius : {Undefined, Some(One)}, maxRadius : {Undefined, Some(900)}]

\* the point lists a curve is built from: generateBranch returns a
\* curve of at least 2 control points
Curves == {points \in PointLists : Len(points) >= 2}

\* configurations with a negative count: GraphConfig types mainBranchCount
\* as number, and generateBrainGraph is exported
NegativeCounts == {[config EXCEPT !.mainBranchCount = -1] : config \in GraphConfigs}

\* the curves getSubBranchDirection is called with: a main branch, whose
\* consecutive control points are a step apart
ParentCurves == {points \in Curves : \A k \in 1..(Len(points) - 1) : points[k] # points[k + 1]}

\* the values of subBranchOffset: the ends and two values inside [0, 1]
OffsetStrengths == {0, 350, 500, One}

\* the places of the cubes the connections memo is called with: cubes that
\* stand face to face, so that several node pairs are equally close
CubePositions == {Zero3, Vec(One, 0, 0), Vec(0, 1200, 0), Vec(5 * One, 0, 0)}

\* cubeData of cubes of size 0.2 at the places positions, none of them turned
CubesAt(positions) == [k \in 1..Len(positions) |-> CubeAt(positions[k], Zero3, 200)]

\* the sizes generateCubeGraph is called with: the default 1 and scales of
\* cubeData, all of them positive
CubeSizes == {1, 160, 200, 240, One}

\* the calls that can be made
Calls ==
    [fn : {"clipBranchToRadius"}, points : PointLists, maxRadius : {One, 1500}]
    \cup [fn : {"normalizeBranchToRadius"}, points : PointLists, origin : Origins,
          targetRadius : {One, 3400}]
    \cup [fn : {"generateBranch"}, config : BranchConfigs, rng : CallRngStates]
    \cup [fn : {"generateBrainGraph"}, config : GraphConfigs \cup NegativeCounts,
          rng : CallRngStates]
    \cup [fn : {"generateBranchPoints"}, config : BranchConfigs, rng : CallRngStates]
    \cup [fn : {"getSubBranchDirection"}, points : ParentCurves, t : {200, 500, 800},
          offsetStrength : OffsetStrengths, rng : CallRngStates]
    \cup [fn : {"BranchLine"}, points : Curves, resolution : 1..MaxResolution]
    \cup [fn : {"BrainGraph"}, points : Curves, resolution : 1..MaxResolution,
          seed : {0, 1}, index : {0, 1}]
    \cup [fn : {"gridCells"}, neuronCount : 0..MaxGridNeurons]
    \cup [fn : {"generateCubeGraph"}, size : CubeSizes]
    \cup [fn : {"CubeGraph.connections"},
          positions : UNION {[1..n -> CubePositions] : n \in 0..MaxCalledCubes},
          maxConnectionDistance : ConnectionDistances]
    \cup [fn : {"generateBranch.config"}, config : BranchConfigs, rng : CallRngStates]
    \cup [fn : {"generateBrainGraph.origin"}, config : GraphConfigs, rng : CallRngStates]
    \cup [fn : {"ConnectionLine"}, start : Points, end : Points, seed : 0..MaxSeed,
          connectionIndex : {0, 1}, resolution : 1..MaxResolution]

InitCalls ==
    /\ page = "none"
    /\ seed = 0
    /\ controls = NoCall
    /\ neuronGraph = NotMounted
    /\ cubeGraph = NotMounted
    /\ brainGraph = NotMounted
    /\ \E c \in Calls : call = [args |-> c, done |-> FALSE, result |-> << >>]

Return(fn, result) ==
    /\ page = "none"
    /\ call.args.fn = fn
    /\ ~call.done
    /\ call' = [call EXCEPT !.done = TRUE, !.result = result]
    /\ UNCHANGED <<page, seed, controls, neuronGraph, cubeGraph, brainGraph>>

CallClip ==
    Return("clipBranchToRadius",
           clipBranchToRadius(call.args.points, call.args.maxRadius))

CallNormalize ==
    Return("normalizeBranchToRadius",
           normalizeBranchToRadius(call.args.points, call.args.origin,
                                   call.args.targetRadius))

CallGenerateBranch ==
    Return("generateBranch", generateBranch(call.args.config, call.args.rng))

CallGenerateBrainGraph ==
    Return("generateBrainGraph", generateBrainGraph(call.args.config, call.args.rng))

CallGenerateBranchPoints ==
    Return("generateBranchPoints", generateBranchPoints(call.args.config, call.args.rng))

CallGetSubBranchDirection ==
    Return("getSubBranchDirection",
           getSubBranchDirection(CatmullRomCurve3(call.args.points), call.args.t,
                                 call.args.offsetStrength, call.args.rng))

\* BranchLine rendered for the branch of call.args.points
CallBranchLine ==
    Return("BranchLine", BranchLine(BranchOf(call.args.points), call.args.resolution))

\* ConnectionLine rendered for a connection from start to end
CallConnectionLine ==
    Return("ConnectionLine",
           lineGeometry(ConnectionCurve(call.args.start, call.args.end, call.args.seed,
                                        call.args.connectionIndex),
                        call.args.resolution))

\* BrainGraph rendered for a graph that holds the sub-branch of call.args.points
CallBrainGraph ==
    Return("BrainGraph",
           RenderBranch(BranchOf(call.args.points), call.args.resolution,
                        call.args.seed, call.args.index))

\* the grid cells of the uniform loop of NeuronGraph for call.args.neuronCount
CallGridCells == Return("gridCells", GridCells(call.args.neuronCount))

\* generateBranch called, for the objects of its config after the call
CallGenerateBranchConfig ==
    Return("generateBranch.config", BranchHeap(call.args.config, call.args.rng))

\* generateBrainGraph called, for its origin object after the loop over i
CallGenerateBrainGraphOrigin ==
    Return("generateBrainGraph.origin",
           SharedOriginLoop(call.args.config, 0, call.args.rng, Zero3))

\* the connections memo of CubeGraph computed for the cubes of the call
CallCubeConnections ==
    Return("CubeGraph.connections",
           CubeConnections(CubesAt(call.args.positions), TRUE,
                           call.args.maxConnectionDistance))

CallGenerateCubeGraph ==
    Return("generateCubeGraph", generateCubeGraph(call.args.size))

NextCalls ==
    \/ CallClip
    \/ CallNormalize
    \/ CallGenerateBranch
    \/ CallGenerateBrainGraph
    \/ CallGenerateBranchPoints
    \/ CallGetSubBranchDirection
    \/ CallBranchLine
    \/ CallConnectionLine
    \/ CallBrainGraph
    \/ CallGridCells
    \/ CallGenerateCubeGraph
    \/ CallCubeConnections
    \/ CallGenerateBranchConfig
    \/ CallGenerateBrainGraphOrigin

SpecCalls == InitCalls /\ [][NextCalls]_vars

(***************************************************************************)
(* Determinism of the neuron graph and of the cube graph                   *)
(***************************************************************************)
\* the node list and the connection list of one instance
NeuronLists(g) == <<g.neuronPositions, g.connections>>
CubeLists(g) == <<g.cubeData, g.connections>>

\* C2: on either page the two instances, rendered from the same seed and the
\* same parameters, hold identical node lists and identical connection lists
\* (same order), and these are the lists a first render from (seed, controls)
\* generates, whatever renders came before.
Deterministic ==
    /\ page = "neuron" =>
          \A r \in Runs :
              /\ NeuronLists(neuronGraph[r]) = NeuronLists(neuronGraph[1])
              /\ NeuronLists(neuronGraph[r])
                    = NeuronLists(NeuronGraphMemos(seed, controls, seed, controls, Null))
    /\ page = "cube" =>
          \A r \in Runs :
              /\ CubeLists(cubeGraph[r]) = CubeLists(cubeGraph[1])
              /\ CubeLists(cubeGraph[r])
                    = CubeLists(CubeGraphMemos(seed, controls, seed, controls, Null))

\* two instances regenerated from a seed other than the initial one, with
\* nodes and connections to compare
DeterministicWitness ==
    /\ page = "neuron"
    /\ seed >= 2
    /\ Len(neuronGraph[1].neuronPositions) >= 3
    /\ Len(neuronGraph[2].connections) >= 2

(***************************************************************************)
(* Uniform placement                                                       *)
(***************************************************************************)
\* C3: in uniform placement every two distinct nodes of the returned list
\* are at least 0.8 * separation apart.
UniformSeparation ==
    (page = "neuron" /\ controls.distribution = "uniform") =>
        \A r \in Runs :
            \A a, b \in 1..Len(neuronGraph[r].neuronPositions) :
                a # b =>
                    VDistance(neuronGraph[r].neuronPositions[a].position,
                              neuronGraph[r].neuronPositions[b].position)
                        >= Mul(controls.separation, 800)

\* a uniform run in which a node was refused and at least two were placed
UniformSeparationWitness ==
    /\ seed >= 1
    /\ page = "neuron"
    /\ controls.distribution = "uniform"
    /\ Len(neuronGraph[1].neuronPositions) >= 2
    /\ Len(neuronGraph[1].neuronPositions) < controls.neuronCount

(***************************************************************************)
(* The connection finders                                                  *)
(***************************************************************************)
\* the connection lists of the mounted page, all instances
MountedConnections ==
    IF page = "neuron" THEN {neuronGraph[r].connections : r \in Runs}
    ELSE {cubeGraph[r].connections : r \in Runs}

\* C4: every connection of either finder joins two points at most
\* maxConnectionDistance apart.
ConnectionThreshold ==
    \A conns \in MountedConnections :
        \A k \in 1..Len(conns) :
            VDistance(conns[k].start, conns[k].end) <= controls.maxConnectionDistance

\* the pairs of cubes i < j (0-based) of an instance
CubePairs(g) ==
    {p \in (0..Len(g.cubeData) - 1) \X (0..Len(g.cubeData) - 1) : p[1] < p[2]}

\* the distances of the 8 x 8 node pairs across cubes p[1] and p[2]
CrossDistances(g, p) ==
    {VDistance(g.cubeData[p[1] + 1].nodePositions[a],
               g.cubeData[p[2] + 1].nodePositions[b]) :
        a \in 1..8, b \in 1..8}

SetMin(S) == CHOOSE m \in S : \A x \in S : m <= x

\* the connections of an instance that join cubes p[1] and p[2]
Between(g, p) ==
    {k \in 1..Len(g.connections) :
        {g.connections[k].startCubeIndex, g.connections[k].endCubeIndex} = {p[1], p[2]}}

\* cube connections exist, and some pair of cubes is left unconnected
ConnectionThresholdWitness ==
    /\ seed >= 1
    /\ page = "cube"
    /\ Len(cubeGraph[1].connections) >= 1
    /\ \E p \in CubePairs(cubeGraph[1]) : Between(cubeGraph[1], p) = {}
    /\ \E p \in CubePairs(cubeGraph[1]) :
          \E d \in CrossDistances(cubeGraph[1], p) : d > controls.maxConnectionDistance

\* C5: between two distinct cubes there is at most one connection, and its
\* length is the least of the distances of the 8 x 8 node pairs of the two cubes.
ClosestPairUnique ==
    page = "cube" =>
        \A r \in Runs : \A p \in CubePairs(cubeGraph[r]) :
            /\ Cardinality(Between(cubeGraph[r], p)) <= 1
            /\ \A k \in Between(cubeGraph[r], p) :
                  VDistance(cubeGraph[r].connections[k].start,
                            cubeGraph[r].connections[k].end)
                      = SetMin(CrossDistances(cubeGraph[r], p))

\* two cubes are connected although several of their node pairs are within
\* the threshold, the first one scanned not being the closest
ClosestPairUniqueWitness ==
    /\ seed >= 1
    /\ page = "cube"
    /\ \E p \in CubePairs(cubeGraph[1]) :
          /\ Between(cubeGraph[1], p) # {}
          /\ Cardinality({d \in CrossDistances(cubeGraph[1], p) :
                             d <= controls.maxConnectionDistance}) >= 2
          /\ VDistance(cubeGraph[1].cubeData[p[1] + 1].nodePositions[1],
                       cubeGraph[1].cubeData[p[2] + 1].nodePositions[1])
                > SetMin(CrossDistances(cubeGraph[1], p))

\* C6: when the closest-pair finder runs, two cubes are connected if and only
\* if some node pair across them is within maxConnectionDistance; with every
\* cross distance above the threshold the finder returns no connection.
ClosestPairExists ==
    (page = "cube" /\ controls.showConnections) =>
        \A r \in Runs :
            /\ \A p \in CubePairs(cubeGraph[r]) :
                  Between(cubeGraph[r], p) # {}
                     <=> \E d \in CrossDistances(cubeGraph[r], p) :
                            d <= controls.maxConnectionDistance
            /\ (\A p \in CubePairs(cubeGraph[r]) :
                   \A d \in CrossDistances(cubeGraph[r], p) :
                       d > controls.maxConnectionDistance)
                  => cubeGraph[r].connections = << >>

\* the finder ran over several cubes, connected some pair and left another
\* pair, all of whose node pairs exceed the threshold, unconnected
ClosestPairExistsWitness ==
    /\ seed >= 1
    /\ page = "cube"
    /\ controls.showConnections
    /\ \E p \in CubePairs(cubeGraph[2]) : Between(cubeGraph[2], p) # {}
    /\ \E p \in CubePairs(cubeGraph[2]) :
          \A d \in CrossDistances(cubeGraph[2], p) : d > controls.maxConnectionDistance

\* the pairs i < j (0-based) of placed nodes of an instance
NodePairs(g) ==
    {p \in (0..Len(g.neuronPositions) - 1) \X (0..Len(g.neuronPositions) - 1) :
        p[1] < p[2]}

NodeDistance(g, p) ==
    VDistance(g.neuronPositions[p[1] + 1].position, g.neuronPositions[p[2] + 1].position)

\* C7: with showConnections true the connection list of the neuron graph holds
\* exactly one connection for each pair i < j of placed nodes within
\* maxConnectionDistance, and every connection is such a pair, joining the
\* positions of its two nodes.
AllPairsExact ==
    (page = "neuron" /\ controls.showConnections) =>
        \A r \in Runs :
            /\ \A p \in NodePairs(neuronGraph[r]) :
                  Cardinality({k \in 1..Len(neuronGraph[r].connections) :
                                  /\ neuronGraph[r].connections[k].startIndex = p[1]
                                  /\ neuronGraph[r].connections[k].endIndex = p[2]})
                     = IF NodeDistance(neuronGraph[r], p) <= controls.maxConnectionDistance
                       THEN 1 ELSE 0
            /\ \A k \in 1..Len(neuronGraph[r].connections) :
                  /\ <<neuronGraph[r].connections[k].startIndex,
                       neuronGraph[r].connections[k].endIndex>>
                        \in NodePairs(neuronGraph[r])
                  /\ neuronGraph[r].connections[k].start
                        = neuronGraph[r].neuronPositions[
                              neuronGraph[r].connections[k].startIndex + 1].position
                  /\ neuronGraph[r].connections[k].end
                        = neuronGraph[r].neuronPositions[
                              neuronGraph[r].connections[k].endIndex + 1].position

\* connections are shown, some pair of nodes is within the threshold and
\* some pair is not
AllPairsExactWitness ==
    /\ seed >= 1
    /\ page = "neuron"
    /\ controls.showConnections
    /\ \E p \in NodePairs(neuronGraph[1]) :
          NodeDistance(neuronGraph[1], p) <= controls.maxConnectionDistance
    /\ \E p \in NodePairs(neuronGraph[1]) :
          NodeDistance(neuronGraph[1], p) > controls.maxConnectionDistance

(***************************************************************************)
(* The brain graph                                                         *)
(***************************************************************************)
\* the point lists of the main branches and of the sub-branches of a graph
BranchPoints(branches) == [k \in 1..Len(branches) |-> branches[k].points]
GraphPoints(g) == <<BranchPoints(g.mainBranches), BranchPoints(g.subBranches)>>

\* C1: two instances of the brain graph generated from the same seed and the
\* same GraphConfig hold identical main-branch and sub-branch point lists.
BrainDeterministic ==
    page = "brain" =>
        \A r \in Runs : GraphPoints(brainGraph[r]) = GraphPoints(brainGraph[1])

\* the done call of the function fn
Called(fn) == page = "none" /\ call.done /\ call.args.fn = fn

\* C8: clipBranchToRadius returns the longest prefix of its input whose
\* points are all within maxRadius of the world origin: the result is a
\* prefix, none of its points exceeds maxRadius, and the input point after
\* it, if there is one, exceeds maxRadius.
ClipLongestPrefix ==
    Called("clipBranchToRadius") =>
        /\ Len(call.result) <= Len(call.args.points)
        /\ call.result = SubSeq(call.args.points, 1, Len(call.result))
        /\ \A k \in 1..Len(call.result) :
              VLength(call.result[k]) <= call.args.maxRadius
        /\ Len(call.result) < Len(call.args.points) =>
              VLength(call.args.points[Len(call.result) + 1]) > call.args.maxRadius

\* a clipped list: a point exceeds maxRadius after a point that is kept and
\* before one that is back inside
ClipLongestPrefixWitness ==
    /\ Called("clipBranchToRadius")
    /\ Len(call.result) >= 1
    /\ \E k, m \in 1..Len(call.args.points) :
          /\ k < m
          /\ VLength(call.args.points[k]) > call.args.maxRadius
          /\ VLength(call.args.points[m]) <= call.args.maxRadius

\* what the arithmetic of the grid can lose in one scaling
Tolerance == One \div 200

\* C9: for at least 2 points whose endpoint is not within 0.001 of origin,
\* normalizeBranchToRadius returns as many points as it was given, the last
\* of them at distance targetRadius (within Tolerance) from origin.
NormalizeReachesTarget ==
    (/\ Called("normalizeBranchToRadius")
     /\ Len(call.args.points) >= 2
     /\ VDistance(call.args.points[Len(call.args.points)], call.args.origin) >= 1) =>
        /\ Len(call.result) = Len(call.args.points)
        /\ Abs(VDistance(call.result[Len(call.result)], call.args.origin)
                  - call.args.targetRadius) <= Tolerance

\* a branch of 3 points about an origin that is not the world origin, its
\* endpoint more than Tolerance away from targetRadius before the call
NormalizeReachesTargetWitness ==
    /\ Called("normalizeBranchToRadius")
    /\ Len(call.args.points) = 3
    /\ call.args.origin # Zero3
    /\ VDistance(call.args.points[3], call.args.origin) >= 1
    /\ Abs(VDistance(call.args.points[3], call.args.origin) - call.args.targetRadius)
          > Tolerance
    /\ call.result # call.args.points

\* every branch of the list has at least 2 control points
AllCurves(branches) == \A k \in 1..Len(branches) : Len(branches[k].points) >= 2

\* C10: generateBranch returns null exactly when fewer than 2 points are left
\* after normalization and clipping, and otherwise a branch of those points;
\* with segments = 0 the points are the origin alone and the result is null;
\* every branch of a graph returned by generateBrainGraph has at least 2
\* control points, and a graph of segments = 0 has no branch.
BranchNeedsTwoPoints ==
    /\ Called("generateBranch") =>
          /\ call.result = Null
                <=> Len(ShapedPoints(call.args.config, call.args.rng)) < 2
          /\ call.result # Null =>
                call.result.points = ShapedPoints(call.args.config, call.args.rng)
          /\ call.args.config.segments = 0 =>
                /\ generateBranchPoints(call.args.config, call.args.rng)
                      = << call.args.config.origin >>
                /\ call.result = Null
    /\ Called("generateBrainGraph") =>
          /\ AllCurves(call.result.mainBranches)
          /\ AllCurves(call.result.subBranches)
          /\ call.args.config.segments = 0 =>
                call.result = [mainBranches |-> << >>, subBranches |-> << >>]

\* a graph with main branches in which a sub-branch was dropped
BranchNeedsTwoPointsWitness ==
    /\ Called("generateBrainGraph")
    /\ call.args.config.subBranchCount = 1
    /\ Len(call.result.mainBranches) >= 2
    /\ Len(call.result.subBranches) >= 1
    /\ Len(call.result.subBranches) < Len(call.result.mainBranches)

(***************************************************************************)
(* The retry loop of the uniform placement                                 *)
(***************************************************************************)
\* the members of a set of numbers in increasing order
RECURSIVE Ascending(_)
Ascending(S) ==
    IF S = {} THEN << >> ELSE << SetMin(S) >> \o Ascending(S \ {SetMin(S)})

\* the candidate of the node of generation index i under the mounted props
CandidateOf(i) ==
    CandidatePosition(seed, controls.separation, CeilCbrt(controls.neuronCount), i)

\* the candidates of the nodes of placed generated before node i, in order
UsedBefore(placed, i) ==
    [k \in 1..Cardinality({j \in placed : j < i}) |->
        CandidateOf(Ascending({j \in placed : j < i})[k])]

\* positions holds the nodes of the generation indices placed, in increasing
\* order; every other index below neuronCount had its candidate refused
\* against the nodes placed before it; no node took more than MaxAttempts
\* passes of the retry loop
PlacedInOrder(positions, placed) ==
    /\ Len(positions) = Cardinality(placed)
    /\ \A k \in 1..Len(positions) :
          /\ positions[k].position = CandidateOf(Ascending(placed)[k])
          /\ positions[k].rotation = NodeRotation(seed, Ascending(placed)[k])
          /\ positions[k].scale = NodeScale(seed, controls.scale, Ascending(placed)[k])
    /\ \A i \in 0..(controls.neuronCount - 1) :
          /\ i \in placed
                <=> ValidPosition(CandidateOf(i), UsedBefore(placed, i), controls.separation)
          /\ AttemptsMade(seed, controls.separation, CeilCbrt(controls.neuronCount), i,
                          UsedBefore(placed, i)) \in 1..MaxAttempts
          /\ i \notin placed =>
                AttemptsMade(seed, controls.separation, CeilCbrt(controls.neuronCount), i,
                             UsedBefore(placed, i)) = MaxAttempts

\* C13: in uniform placement the retry loop of a node makes at most 100
\* attempts; a node whose candidate is refused is left out and the loop goes
\* on to the next node; the list returned holds at most neuronCount nodes,
\* in increasing order of their generation index.
UniformOmitsRefused ==
    (page = "neuron" /\ controls.distribution = "uniform") =>
        \A r \in Runs :
            /\ Len(neuronGraph[r].neuronPositions) <= controls.neuronCount
            /\ \E placed \in SUBSET (0..(controls.neuronCount - 1)) :
                  PlacedInOrder(neuronGraph[r].neuronPositions, placed)

\* a uniform run in which a node was refused after 100 attempts and a node
\* generated after it was placed
UniformOmitsRefusedWitness ==
    /\ page = "neuron"
    /\ seed >= 1
    /\ controls.distribution = "uniform"
    /\ \E placed \in SUBSET (0..(controls.neuronCount - 1)) :
          /\ PlacedInOrder(neuronGraph[1].neuronPositions, placed)
          /\ \E i \in 0..(controls.neuronCount - 1) : \E j \in placed :
                i \notin placed /\ i < j

(***************************************************************************)
(* Clustered placement                                                     *)
(***************************************************************************)
\* the centres of the nodes of the mounted page, per instance, when the
\* placement is clustered (the cube graph always is)
ClusteredCentres ==
    IF page = "cube"
    THEN {[k \in 1..Len(cubeGraph[r].cubeData) |-> cubeGraph[r].cubeData[k].position] :
             r \in Runs}
    ELSE IF page = "neuron" /\ controls.distribution = "clustered"
    THEN {[k \in 1..Len(neuronGraph[r].neuronPositions) |->
              neuronGraph[r].neuronPositions[k].position] : r \in Runs}
    ELSE {}

\* neuronCount or cubeCount of the mounted page
NodeCount == IF page = "cube" THEN controls.cubeCount ELSE controls.neuronCount

\* what the sines and cosines of the grid can lose on a radius up to spread
RadiusTolerance == controls.spread \div 200

\* C12: clustered placement returns exactly count nodes, and every centre
\* is at a distance from the origin within [0.3 * spread, spread] (within
\* RadiusTolerance); so for seed = 0, count = 5, spread = 10.
ClusteredInShell ==
    \A centres \in ClusteredCentres :
        /\ Len(centres) = NodeCount
        /\ \A k \in 1..Len(centres) :
              /\ VLength(centres[k]) >= Mul(controls.spread, 300) - RadiusTolerance
              /\ VLength(centres[k]) <= controls.spread + RadiusTolerance

\* the scenario: seed = 0, clustered placement, count = 5, spread = 10,
\* with a node in the inner half of the shell and one in the outer half
ClusteredInShellWitness ==
    /\ page = "neuron"
    /\ seed = 0
    /\ controls.distribution = "clustered"
    /\ controls.neuronCount = 5
    /\ controls.spread = 10 * One
    /\ Len(neuronGraph[1].neuronPositions) = 5
    /\ \E k \in 1..5 : VLength(neuronGraph[1].neuronPositions[k].position) < 6500
    /\ \E k \in 1..5 : VLength(neuronGraph[1].neuronPositions[k].position) > 6500

(***************************************************************************)
(* The streams of seededRandom                                             *)
(***************************************************************************)
\* the offsets node placement passes to seededRandom for count nodes
PlacementOffsets(count) ==
    UNION {PositionOffsets(i) \cup RotationOffsets(i) \cup {ScaleOffset(i)} :
              i \in 0..(count - 1)}

\* C15: the hash arguments of node placement under the mounted seed differ
\* from those under every other seed that Regenerate reaches, whatever the
\* two offsets.
SeedStreamsApart ==
    page \in {"neuron", "cube"} =>
        \A other \in (0..MaxSeed) \ {seed} :
            \A o, p \in PlacementOffsets(NodeCount) :
                HashArg(seed, o) # HashArg(other, p)

\* Regenerate was pressed twice and several nodes are placed
SeedStreamsApartWitness ==
    /\ page \in {"neuron", "cube"}
    /\ seed >= 2
    /\ NodeCount >= 3
    /\ \E centres \in ClusteredCentres : Len(centres) >= 3

\* C20: in clustered placement the offsets of the rotation of a node are
\* offsets of no node's position and of no node's scale in the same run.
RotationOffsetsApart ==
    ClusteredCentres # {} =>
        \A i, k \in 0..(NodeCount - 1) :
            RotationOffsets(i) \cap (PositionOffsets(k) \cup {ScaleOffset(k)}) = {}

(***************************************************************************)
(* Invalid configurations                                                  *)
(***************************************************************************)
\* C14: a call of generateBrainGraph with a negative count does not return
\* a graph: the configuration is reported as a failure before generation.
InvalidConfigurationReported ==
    (Called("generateBrainGraph") /\ call.args.config.mainBranchCount < 0) =>
        DOMAIN call.result # {"mainBranches", "subBranches"}

(***************************************************************************)
(* The random walk of a branch                                             *)
(***************************************************************************)
\* C16: called with a direction that is not the zero vector,
\* generateBranchPoints returns segments + 1 points, the first of them the
\* origin, every two consecutive points stepLength apart (within Tolerance),
\* so that point k is within k * stepLength of the origin.
BranchPointsWalk ==
    Called("generateBranchPoints") =>
        /\ Len(call.result) = call.args.config.segments + 1
        /\ call.result[1] = call.args.config.origin
        /\ \A k \in 1..(Len(call.result) - 1) :
              /\ Abs(VDistance(call.result[k], call.result[k + 1])
                        - call.args.config.stepLength) <= Tolerance
              /\ VDistance(call.result[k + 1], call.args.config.origin)
                    <= k * (call.args.config.stepLength + Tolerance)

\* a walk of 2 segments from an origin that is not the world origin, the
\* second step turned away from the first
BranchPointsWalkWitness ==
    /\ Called("generateBranchPoints")
    /\ call.args.config.segments = 2
    /\ call.args.config.origin # Zero3
    /\ VSub(call.result[3], call.result[2]) # VSub(call.result[2], call.result[1])
    /\ VDistance(call.result[3], call.args.config.origin)
          < 2 * call.args.config.stepLength - Tolerance

(***************************************************************************)
(* The branches of the brain graph                                         *)
(***************************************************************************)
\* C17: with segments >= 1, mainRadius > 0 and a count that is not negative,
\* generateBrainGraph returns exactly mainBranchCount main branches, each of
\* segments + 1 points starting at the world origin, and at most
\* mainBranchCount * subBranchCount sub-branches.
MainBranchesKept ==
    (/\ Called("generateBrainGraph")
     /\ call.args.config.segments >= 1
     /\ call.args.config.mainRadius > 0
     /\ call.args.config.mainBranchCount >= 0) =>
        /\ Len(call.result.mainBranches) = call.args.config.mainBranchCount
        /\ \A k \in 1..Len(call.result.mainBranches) :
              /\ call.result.mainBranches[k].points[1] = Zero3
              /\ Len(call.result.mainBranches[k].points) = call.args.config.segments + 1
        /\ Len(call.result.subBranches)
              <= call.args.config.mainBranchCount * call.args.config.subBranchCount

\* two main branches of two segments, and a sub-branch for only one of them
MainBranchesKeptWitness ==
    /\ Called("generateBrainGraph")
    /\ call.args.config.segments = 2
    /\ call.args.config.subBranchCount = 1
    /\ Len(call.result.mainBranches) = 2
    /\ Len(call.result.subBranches) = 1

\* the state of the generator when t is drawn for sub-branch j of main
\* branch m (both 0-based), every main branch before m being kept
SpawnRng(config, rng, m, j) ==
    RngAfter(rng, m * (2 + BranchDraws(config.segments)
                         + config.subBranchCount * SubBranchDraws(config))
                  + 2 + BranchDraws(config.segments) + j * SubBranchDraws(config))

\* C18: every sub-branch is spawned at a parameter t with 0.2 <= t <= 0.8,
\* and the first control point of every sub-branch of the graph is the point
\* of a main branch at the t drawn for one of its sub-branches.
SpawnedAlongParent ==
    (/\ Called("generateBrainGraph")
     /\ call.args.config.segments >= 1
     /\ call.args.config.mainBranchCount >= 0) =>
        /\ \A m \in 0..(call.args.config.mainBranchCount - 1) :
              \A j \in 0..(call.args.config.subBranchCount - 1) :
                  /\ SpawnT(SpawnRng(call.args.config, call.args.rng, m, j)) >= 200
                  /\ SpawnT(SpawnRng(call.args.config, call.args.rng, m, j)) <= 800
        /\ \A k \in 1..Len(call.result.subBranches) :
              \E m \in 0..(call.args.config.mainBranchCount - 1) :
                  \E j \in 0..(call.args.config.subBranchCount - 1) :
                      call.result.subBranches[k].points[1]
                         = getPointAt(call.result.mainBranches[m + 1].curve,
                                      SpawnT(SpawnRng(call.args.config, call.args.rng, m, j)))

\* a sub-branch kept on the second main branch, spawned past the middle of
\* its parent, while the sub-branch of the first main branch was dropped
SpawnedAlongParentWitness ==
    /\ Called("generateBrainGraph")
    /\ call.args.config.mainBranchCount = 2
    /\ call.args.config.subBranchCount = 1
    /\ call.args.config.segments >= 1
    /\ Len(call.result.subBranches) = 1
    /\ SpawnT(SpawnRng(call.args.config, call.args.rng, 1, 0)) > 500
    /\ call.result.subBranches[1].points[1]
          = getPointAt(call.result.mainBranches[2].curve,
                       SpawnT(SpawnRng(call.args.config, call.args.rng, 1, 0)))
    /\ call.result.subBranches[1].points[1]
          # getPointAt(call.result.mainBranches[1].curve,
                       SpawnT(SpawnRng(call.args.config, call.args.rng, 0, 0)))

\* the tangent of the parent curve at the t of the done call
ParentTangent == getTangentAt(CatmullRomCurve3(call.args.points), call.args.t)

\* C19: for a parent curve whose consecutive control points differ and an
\* offsetStrength in [0, 1], getSubBranchDirection returns a unit vector
\* (within Tolerance), never the zero vector; it is the parent tangent when
\* offsetStrength = 0 and perpendicular to it when offsetStrength = 1.
SubDirectionUnit ==
    Called("getSubBranchDirection") =>
        /\ call.result # Zero3
        /\ Abs(VLength(call.result) - One) <= Tolerance
        /\ call.args.offsetStrength = 0 =>
              VDistance(call.result, ParentTangent) <= Tolerance
        /\ call.args.offsetStrength = One =>
              Abs(VDot(call.result, ParentTangent)) <= Tolerance

\* a fully perpendicular direction asked of a parent that runs along the y
\* axis, where up is switched to (1, 0, 0), at an angle that is not 0
SubDirectionUnitWitness ==
    /\ Called("getSubBranchDirection")
    /\ call.args.offsetStrength = One
    /\ call.args.rng # 0
    /\ ParentTangent = Vec(0, One, 0)
    /\ call.result # Zero3

(***************************************************************************)
(* Degenerate branches in normalizeBranchToRadius                          *)
(***************************************************************************)
\* the distance from origin to the endpoint of the point list of the call
CurrentRadius == VDistance(call.args.points[Len(call.args.points)], call.args.origin)

\* offset * currentRadius = before * targetRadius on every axis, to within
\* Tolerance of the offset
SameFactor(offset, before, targetRadius, currentRadius) ==
    \A c \in 1..3 :
        Abs(offset[c] * currentRadius - before[c] * targetRadius)
           <= Tolerance * currentRadius

\* C21: normalizeBranchToRadius returns the point list it was given when the
\* list has fewer than 2 points or its endpoint is within 0.001 of origin;
\* otherwise the offset from origin of every returned point is the offset of
\* the point it was given times targetRadius / currentRadius, and a first
\* point equal to origin stays at origin.
NormalizeKeepsDegenerate ==
    Called("normalizeBranchToRadius") =>
        IF Len(call.args.points) < 2 \/ CurrentRadius < 1
        THEN call.result = call.args.points
        ELSE /\ Len(call.result) = Len(call.args.points)
             /\ \A k \in 1..Len(call.result) :
                   SameFactor(VSub(call.result[k], call.args.origin),
                              VSub(call.args.points[k], call.args.origin),
                              call.args.targetRadius, CurrentRadius)
             /\ call.args.points[1] = call.args.origin =>
                   call.result[1] = call.args.origin

\* a branch of 3 points that starts at origin and is stretched: the first
\* point stays, the other two move
NormalizeKeepsDegenerateWitness ==
    /\ Called("normalizeBranchToRadius")
    /\ Len(call.args.points) = 3
    /\ CurrentRadius >= 1
    /\ call.args.points[1] = call.args.origin
    /\ call.result[1] = call.args.origin
    /\ call.result[2] # call.args.points[2]
    /\ call.result[3] # call.args.points[3]

(***************************************************************************)
(* The map of connected nodes of the cube graph                            *)
(***************************************************************************)
\* the keys (cubeIndex, nodeIndex) of the two endpoints of a connection
EndpointKeys(connection) ==
    {<<connection.startCubeIndex, connection.startNodeIndex>>,
     <<connection.endCubeIndex, connection.endNodeIndex>>}

\* the map of g has a key exactly for the endpoints of the connections of g,
\* each with the index of a connection of g that ends in it
MapMatchesConnections(g) ==
    /\ DOMAIN g.nodeConnectionMap
          = UNION {EndpointKeys(g.connections[n]) : n \in 1..Len(g.connections)}
    /\ \A key \in DOMAIN g.nodeConnectionMap :
          /\ g.nodeConnectionMap[key].connectionIndex \in 0..(Len(g.connections) - 1)
          /\ key \in EndpointKeys(
                        g.connections[g.nodeConnectionMap[key].connectionIndex + 1])

\* C22: in the cube graph nodeConnectionMap has an entry for (cubeIndex,
\* nodeIndex) if and only if that node is an endpoint of a connection of the
\* list, the connectionIndex of the entry is the index of a connection with
\* that endpoint, and with showConnections false the list and the map are
\* both empty.
ConnectedNodesMapped ==
    page = "cube" =>
        \A r \in Runs :
            /\ MapMatchesConnections(cubeGraph[r])
            /\ ~controls.showConnections =>
                  /\ cubeGraph[r].connections = << >>
                  /\ DOMAIN cubeGraph[r].nodeConnectionMap = {}

\* two connections that end in the same node, so that the entry of the node
\* was set twice and keeps the index of the later one
ConnectedNodesMappedWitness ==
    /\ page = "cube"
    /\ controls.showConnections
    /\ \E m, n \in 1..Len(cubeGraph[1].connections) :
          /\ m < n
          /\ \E key \in EndpointKeys(cubeGraph[1].connections[m])
                           \cap EndpointKeys(cubeGraph[1].connections[n]) :
                cubeGraph[1].nodeConnectionMap[key].connectionIndex = n - 1

(***************************************************************************)
(* The life of a brain graph                                               *)
(***************************************************************************)
\* the graphs generateBrainGraph can return for the controls c
FreshGraphs(c) == {BrainGraphs[GraphConfigOf(c)][rng] : rng \in RngStates}

RenderKeepsGraph ==
    Called("BrainGraph") =>
        /\ call.result.points = call.args.points
        /\ call.result.geometry
              = BranchLine(BranchOf(call.args.points), call.args.resolution)

\* a render whose remap moved the first sample of the curve and the spawn
\* point, both of which start at the first control point
RenderKeepsGraphWitness ==
    /\ Called("BrainGraph")
    /\ call.result.geometry.points[1] # call.args.points[1]
    /\ call.result.position # call.args.points[1]
    /\ call.result.position = call.result.geometry.points[1]
    /\ call.result.points[1] = call.args.points[1]

(***************************************************************************)
(* The config a scene hands to BrainGraph                                  *)
(***************************************************************************)
\* C25: the config that Scene builds and passes to BrainGraph defines every
\* field generateBrainGraph reads, mainBranchCount among them, so that the
\* loop over the main branches has a count to run to.
SceneConfigComplete ==
    page = "brain" => ConfigFields \subseteq DOMAIN GraphConfigOf(controls)

(***************************************************************************)
(* Retries in uniform placement                                            *)
(***************************************************************************)
\* node i keeps its distance from the nodes of placed generated before it
FarFromPlaced(placed, i) ==
    \A j \in placed :
        j < i => VDistance(CandidateOf(i), CandidateOf(j)) >= Mul(controls.separation, 800)

\* positions holds the candidates of the nodes of placed, in order, and a
\* node is in placed exactly when its candidate is far from those before it
FirstCandidateDecides(positions, placed) ==
    /\ Len(positions) = Cardinality(placed)
    /\ \A k \in 1..Len(positions) :
          positions[k].position = CandidateOf(Ascending(placed)[k])
    /\ \A i \in 0..(controls.neuronCount - 1) : i \in placed <=> FarFromPlaced(placed, i)

\* every pass of the retry loop of node i, run against usedPositions, gives
\* the verdict far of the first candidate, so the loop ends after 1 pass or
\* after MaxAttempts
RetriesRepeatWith(i, usedPositions, far) ==
    /\ \A k \in 1..MaxAttempts :
          AttemptValid(seed, controls.separation, CeilCbrt(controls.neuronCount), i,
                       usedPositions, k) <=> far
    /\ AttemptsMade(seed, controls.separation, CeilCbrt(controls.neuronCount), i,
                    usedPositions) = IF far THEN 1 ELSE MaxAttempts

RetriesRepeat(placed, i) ==
    RetriesRepeatWith(i, UsedBefore(placed, i), FarFromPlaced(placed, i))

\* C26: in uniform placement the candidate of node i is the same on every
\* retry (it depends on seed, i, separation and gridSize, not on the attempt
\* number), so node i is placed if and only if its first candidate is at
\* least 0.8 * separation from every node accepted before it.
RetrySameCandidate ==
    (page = "neuron" /\ controls.distribution = "uniform") =>
        \E placed \in SUBSET (0..(controls.neuronCount - 1)) :
            /\ \A r \in Runs :
                  FirstCandidateDecides(neuronGraph[r].neuronPositions, placed)
            /\ \A i \in 0..(controls.neuronCount - 1) : RetriesRepeat(placed, i)

\* a uniform run that left out a node whose candidate is too close to a node
\* placed before it, though its candidate is far from another placed node
RetrySameCandidateWitness ==
    /\ page = "neuron"
    /\ controls.distribution = "uniform"
    /\ \E i \in 1..(controls.neuronCount - 1) :
          /\ \A k \in 1..Len(neuronGraph[1].neuronPositions) :
                neuronGraph[1].neuronPositions[k].position # CandidateOf(i)
          /\ \E k \in 1..Len(neuronGraph[1].neuronPositions) :
                VDistance(CandidateOf(i), neuronGraph[1].neuronPositions[k].position)
                   < Mul(controls.separation, 800)
          /\ \E k \in 1..Len(neuronGraph[1].neuronPositions) :
                VDistance(CandidateOf(i), neuronGraph[1].neuronPositions[k].position)
                   >= Mul(controls.separation, 800)

(***************************************************************************)
(* The grid of uniform placement                                           *)
(***************************************************************************)
\* C27: with gridSize = ceil(cbrt(neuronCount)), the least g whose cube is at
\* least neuronCount, two different node indices below neuronCount get
\* different grid cells and every coordinate of a cell lies in
\* [0, gridSize - 1].
GridCellsDistinct ==
    Called("gridCells") =>
        /\ CeilCbrt(call.args.neuronCount) ^ 3 >= call.args.neuronCount
        /\ \A g \in 0..(CeilCbrt(call.args.neuronCount) - 1) :
              g ^ 3 < call.args.neuronCount
        /\ Len(call.result) = call.args.neuronCount
        /\ \A i, k \in 1..Len(call.result) : i # k => call.result[i] # call.result[k]
        /\ \A i \in 1..Len(call.result) : \A c \in 1..3 :
              call.result[i][c] \in 0..(CeilCbrt(call.args.neuronCount) - 1)

\* a grid of 3 cells a side that is not full: node 9 opens the second layer
GridCellsDistinctWitness ==
    /\ Called("gridCells")
    /\ call.args.neuronCount > 10
    /\ call.args.neuronCount < 27
    /\ call.result[10] = Vec(0, 0, 1)
    /\ call.result[6] = Vec(2, 1, 0)

(***************************************************************************)
(* The vectors of a branch config                                          *)
(***************************************************************************)
\* C28: generateBranch and generateBranchPoints leave config.origin and
\* config.direction as they were given, and the origin object shared by all
\* main branches of generateBrainGraph is still (0, 0, 0) after every branch
\* has been generated.
ConfigVectorsKept ==
    /\ Called("generateBranch.config") =>
          /\ call.result["origin"] = call.args.config.origin
          /\ call.result["direction"] = call.args.config.direction
    /\ Called("generateBrainGraph.origin") => call.result = Zero3

\* a branch about an origin away from the world origin, its direction not a
\* unit vector: the clone of the direction was normalized and turned, the
\* clone of the origin moved out to the normalized endpoint
ConfigVectorsKeptWitness ==
    /\ Called("generateBranch.config")
    /\ call.args.config.segments >= 1
    /\ call.args.config.origin # Zero3
    /\ call.result["currentDir"] # VNormalize(call.args.config.direction)
    /\ VNormalize(call.args.config.direction) # call.args.config.direction
    /\ "scaled" \in DOMAIN call.result
    /\ call.result["scaled"] # call.args.config.origin

(***************************************************************************)
(* The order of the closest-pair connections                               *)
(***************************************************************************)
\* the pair <<a, b>> comes before the pair <<c, d>> in the order of the scan
ScannedBefore(a, b, c, d) == a < c \/ (a = c /\ b < d)

\* the distance between node a of the start cube and node b of the end cube
\* of a connection of g, nodes counted from 0
AcrossDistance(g, connection, a, b) ==
    VDistance(g.cubeData[connection.startCubeIndex + 1].nodePositions[a + 1],
              g.cubeData[connection.endCubeIndex + 1].nodePositions[b + 1])

\* the node pair of the connection is the first in scan order to be at the
\* distance of the connection: every pair scanned before it is farther apart
FirstOfTies(g, connection) ==
    /\ AcrossDistance(g, connection, connection.startNodeIndex, connection.endNodeIndex)
          = VDistance(connection.start, connection.end)
    /\ \A a \in 0..7 : \A b \in 0..7 :
          ScannedBefore(a, b, connection.startNodeIndex, connection.endNodeIndex) =>
              AcrossDistance(g, connection, a, b)
                 > VDistance(connection.start, connection.end)

\* the connections of g are in the order of the scan of the cube pairs, each
\* from the cube of lower index, each the first of its ties
ScanOrdered(g) ==
    /\ \A k \in 1..Len(g.connections) :
          /\ g.connections[k].startCubeIndex < g.connections[k].endCubeIndex
          /\ FirstOfTies(g, g.connections[k])
    /\ \A k, m \in 1..Len(g.connections) :
          k < m => ScannedBefore(g.connections[k].startCubeIndex,
                                 g.connections[k].endCubeIndex,
                                 g.connections[m].startCubeIndex,
                                 g.connections[m].endCubeIndex)

\* the cubes and the connections of the done call of the connections memo
CalledCubes ==
    [cubeData |-> CubesAt(call.args.positions), connections |-> call.result.connections]

\* C29: in closest-pair mode the connections are appended in lexicographic
\* order of the cube pair (i, j), every connection has startCubeIndex <
\* endCubeIndex, and among the node pairs of two cubes that tie for the least
\* distance the one chosen is the first in (startNodeIndex, endNodeIndex)
\* scan order.
ConnectionsInScanOrder == Called("CubeGraph.connections") => ScanOrdered(CalledCubes)

\* three connections, the second of them between two cubes that have another
\* node pair, scanned later, at the same least distance
ConnectionsInScanOrderWitness ==
    /\ Called("CubeGraph.connections")
    /\ Len(call.result.connections) = 3
    /\ call.result.connections[2].startCubeIndex = 0
    /\ call.result.connections[2].endCubeIndex = 2
    /\ \E a \in 0..7 : \E b \in 0..7 :
          /\ ScannedBefore(call.result.connections[2].startNodeIndex,
                           call.result.connections[2].endNodeIndex, a, b)
          /\ AcrossDistance(CalledCubes, call.result.connections[2], a, b)
                = VDistance(call.result.connections[2].start,
                            call.result.connections[2].end)

(***************************************************************************)
(* The wireframe of a cube                                                 *)
(***************************************************************************)
\* the axes on which two points differ
AxesApart(a, b) == {c \in 1..3 : a[c] # b[c]}

\* the edges of a graph that end in node n, nodes counted from 0
EdgesAt(graph, n) == {e \in 1..Len(graph.edges) : n \in {graph.edges[e][1], graph.edges[e][2]}}

\* C30: generateCubeGraph returns 8 nodes and 12 edges that form the
\* wireframe of a cube: every edge joins two different nodes of the list
\* whose coordinates differ on exactly one axis, no two edges join the same
\* two nodes, and every node is an end of exactly 3 edges.
CubeWireframe ==
    Called("generateCubeGraph") =>
        /\ Len(call.result.nodes) = 8
        /\ Len(call.result.edges) = 12
        /\ \A e \in 1..Len(call.result.edges) :
              /\ call.result.edges[e][1] \in 0..7
              /\ call.result.edges[e][2] \in 0..7
              /\ call.result.edges[e][1] # call.result.edges[e][2]
              /\ Cardinality(AxesApart(call.result.nodes[call.result.edges[e][1] + 1],
                                       call.result.nodes[call.result.edges[e][2] + 1])) = 1
        /\ \A e, f \in 1..Len(call.result.edges) :
              e # f => {call.result.edges[e][1], call.result.edges[e][2]}
                          # {call.result.edges[f][1], call.result.edges[f][2]}
        /\ \A n \in 0..7 : Cardinality(EdgesAt(call.result, n)) = 3

\* a cube of half-side 0.2: its nodes 0 and 6 are opposite corners, and the
\* edge [3,0] closes the bottom face
CubeWireframeWitness ==
    /\ Called("generateCubeGraph")
    /\ call.args.size = 200
    /\ call.result.nodes[1] = Vec(-200, -200, -200)
    /\ call.result.nodes[7] = Vec(200, 200, 200)
    /\ call.result.edges[4] = <<3, 0>>

(***************************************************************************)
(* Sampled curves                                                          *)
(***************************************************************************)
\* C11: the progress values of the geometry of BranchLine and of the line
\* geometry of ConnectionLine, built with resolution >= 1, are resolution + 1
\* values, one per sampled point, strictly increasing, the first 0 and the
\* last 1.
ProgressIncreasing ==
    ((Called("BranchLine") \/ Called("ConnectionLine")) /\ call.args.resolution >= 1) =>
        /\ Len(call.result.branchProgress) = call.args.resolution + 1
        /\ Len(call.result.points) = Len(call.result.branchProgress)
        /\ call.result.branchProgress[1] = 0
        /\ call.result.branchProgress[Len(call.result.branchProgress)] = One
        /\ \A k \in 1..(Len(call.result.branchProgress) - 1) :
              call.result.branchProgress[k] < call.result.branchProgress[k + 1]

\* a branch of 3 control points sampled at 4 points, some of them remapped
ProgressIncreasingWitness ==
    /\ Called("BranchLine")
    /\ Len(call.args.points) = 3
    /\ call.args.resolution = 3
    /\ call.result.points # getPoints(CatmullRomCurve3(call.args.points), 3)

=============================================================================
